---- MODULE Spec2Model ----
(***************************************************************************)
(* Content classification and reversible transform engine of PasteKitLab. *)
(*                                                                         *)
(* Text is a sequence of UTF-16 code units (naturals), bytes are a         *)
(* sequence of 0..255.  Regular expressions of the source are kept as     *)
(* syntax trees and run by one matcher, so that every pattern below can    *)
(* be compared with the literal in the source.                             *)
(***************************************************************************)
EXTENDS Integers, Sequences, FiniteSets, TLC

(***************************************************************************)
(* Characters                                                              *)
(***************************************************************************)
AsciiTable ==
  << " ", "!", "\"", "#", "$", "%", "&", "'", "(", ")", "*", "+", ",", "-", ".", "/",
     "0", "1", "2", "3", "4", "5", "6", "7", "8", "9", ":", ";", "<", "=", ">", "?",
     "@", "A", "B", "C", "D", "E", "F", "G", "H", "I", "J", "K", "L", "M", "N", "O",
     "P", "Q", "R", "S", "T", "U", "V", "W", "X", "Y", "Z", "[", "\\", "]", "^", "_",
     "grave", "a", "b", "c", "d", "e", "f", "g", "h", "i", "j", "k", "l", "m", "n", "o",
     "p", "q", "r", "s", "t", "u", "v", "w", "x", "y", "z", "{", "|", "}", "~" >>

\* code unit of a one-character string (String.prototype.charCodeAt)
Ord ==
  [c \in {AsciiTable[i] : i \in 1..95} |-> 31 + (CHOOSE i \in 1..95 : AsciiTable[i] = c)]

\* a JavaScript string literal, written one character per element
Str(t) ==
  [i \in 1..Len(t) |-> Ord[t[i]]]

\* character range a-b of a character class
Rng(a, b) ==
  Ord[a] .. Ord[b]

\* the characters listed in a character class
Chars(t) ==
  {Ord[t[i]] : i \in 1..Len(t)}

\* '\n' and '\r'
LF == 10
CR == 13

\* WhiteSpace and LineTerminator code units: String.prototype.trim and \s
JsWhiteSpace ==
  {9, 10, 11, 12, 13, 32, 160, 5760, 8232, 8233, 8239, 8287, 12288, 65279} \cup (8192..8202)

RECURSIVE TrimStart(_)
TrimStart(s) ==
  IF s # <<>> /\ Head(s) \in JsWhiteSpace THEN TrimStart(Tail(s)) ELSE s

RECURSIVE TrimEnd(_)
TrimEnd(s) ==
  IF s # <<>> /\ s[Len(s)] \in JsWhiteSpace THEN TrimEnd(SubSeq(s, 1, Len(s) - 1)) ELSE s

\* a trim that removes nothing
TrimNothing(s) ==
  s

\* String.prototype.trim
Trim(s) ==
  TrimEnd(TrimStart(s))

\* String.prototype.toLowerCase on the ASCII letters
ToLower(s) ==
  [i \in 1..Len(s) |-> IF s[i] \in 65..90 THEN s[i] + 32 ELSE s[i]]

\* String.prototype.startsWith
StartsWith(s, p) ==
  Len(s) >= Len(p) /\ SubSeq(s, 1, Len(p)) = p

\* String.prototype.includes for a single character
IncludesChar(s, c) ==
  \E i \in 1..Len(s) : s[i] = Ord[c]

(***************************************************************************)
(* Regular expressions                                                     *)
(***************************************************************************)
Unbounded == 100000

RCls(S) == [k |-> "cls", s |-> S]
RSeq(a) == [k |-> "seq", a |-> a]
RAlt(a) == [k |-> "alt", a |-> a]
RRep(r, lo, hi) == [k |-> "rep", r |-> r, lo |-> lo, hi |-> hi]
ROpt(r) == RRep(r, 0, 1)
RStar(r) == RRep(r, 0, Unbounded)
RPlus(r) == RRep(r, 1, Unbounded)
RLit(c) == RCls({Ord[c]})

Digit == Rng("0", "9")
HexDigit == Rng("0", "9") \cup Rng("a", "f") \cup Rng("A", "F")
Alpha == Rng("a", "z") \cup Rng("A", "Z")
AlNum == Alpha \cup Digit

\* Ends(r, s, I): the positions where a match of r that starts at a position
\* of I can end (a position is the number of code units before it)
RECURSIVE Ends(_, _, _)
RECURSIVE SeqEnds(_, _, _, _)
RECURSIVE RepEnds(_, _, _, _, _)
SeqEnds(a, n, s, I) ==
  IF n > Len(a) \/ I = {} THEN I ELSE SeqEnds(a, n + 1, s, Ends(a[n], s, I))

RepEnds(r, n, s, I, seen) ==
  LET fresh == I \ seen
      here == IF n >= r.lo THEN I ELSE {}
  IN  IF I = {} \/ n >= r.hi \/ (n >= r.lo /\ fresh = {})
      THEN here
      ELSE here \cup RepEnds(r, n + 1, s, Ends(r.r, s, IF n >= r.lo THEN fresh ELSE I),
                             IF n >= r.lo THEN seen \cup I ELSE seen)

\* a repeated character class: the ends of the runs of class members
RunEnds(r, s, I) ==
  LET Last(i) == IF i + r.hi < Len(s) THEN i + r.hi ELSE Len(s)
  IN  UNION {{e \in (i + r.lo)..Last(i) : \A j \in (i + 1)..e : s[j] \in r.r.s} : i \in I}

Ends(r, s, I) ==
  CASE r.k = "cls" -> {i + 1 : i \in {j \in I : j < Len(s) /\ s[j + 1] \in r.s}}
    [] r.k = "seq" -> SeqEnds(r.a, 1, s, I)
    [] r.k = "alt" -> UNION {Ends(r.a[n], s, I) : n \in 1..Len(r.a)}
    [] r.k = "rep" -> IF r.r.k = "cls" THEN RunEnds(r, s, I) ELSE RepEnds(r, 0, s, I, {})

\* /^r$/.test(s)
Test(r, s) ==
  Len(s) \in Ends(r, s, {0})

\* /r/.test(s), not anchored
Search(r, s) ==
  Ends(r, s, 0..Len(s)) # {}

(***************************************************************************)
(* Patterns of detectContentType                                           *)
(***************************************************************************)
\* (25[0-5]|2[0-4][0-9]|[01]?[0-9][0-9]?)
Octet ==
  RAlt(<< RSeq(<<RLit("2"), RLit("5"), RCls(Rng("0", "5"))>>),
          RSeq(<<RLit("2"), RCls(Rng("0", "4")), RCls(Digit)>>),
          RSeq(<<ROpt(RCls(Chars(<<"0", "1">>))), RCls(Digit), ROpt(RCls(Digit))>>) >>)

ipv4Pattern ==
  RSeq(<<RRep(RSeq(<<Octet, RLit(".")>>), 3, 3), Octet>>)

\* [0-9a-fA-F]{1,4}
H4 ==
  RRep(RCls(HexDigit), 1, 4)

\* ([0-9a-fA-F]{1,4}:){lo,hi}
H4Colon(lo, hi) ==
  RRep(RSeq(<<H4, RLit(":")>>), lo, hi)

\* (:[0-9a-fA-F]{1,4}){lo,hi}
ColonH4(lo, hi) ==
  RRep(RSeq(<<RLit(":"), H4>>), lo, hi)

ipv6FullRegex ==
  RSeq(<<H4Colon(7, 7), H4>>)

ipv6CompressedRegex ==
  RAlt(<< RSeq(<<H4Colon(1, 7), RLit(":")>>),
          RSeq(<<RLit(":"), RAlt(<<H4Colon(1, 7), RLit(":")>>)>>),
          RSeq(<<H4Colon(1, 6), RLit(":"), H4>>),
          RSeq(<<H4Colon(1, 5), ColonH4(1, 2)>>),
          RSeq(<<H4Colon(1, 4), ColonH4(1, 3)>>),
          RSeq(<<H4Colon(1, 3), ColonH4(1, 4)>>),
          RSeq(<<H4Colon(1, 2), ColonH4(1, 5)>>),
          RSeq(<<H4, RLit(":"), ColonH4(1, 6)>>),
          RSeq(<<RLit(":"), RAlt(<<ColonH4(1, 7), RLit(":")>>)>>) >>)

\* ...\/([1-9]|[12][0-9]|3[0-2])
cidrPattern ==
  RSeq(<< RRep(RSeq(<<Octet, RLit(".")>>), 3, 3), Octet, RLit("/"),
          RAlt(<< RCls(Rng("1", "9")),
                  RSeq(<<RCls(Chars(<<"1", "2">>)), RCls(Digit)>>),
                  RSeq(<<RLit("3"), RCls(Rng("0", "2"))>>) >>) >>)

\* ([0-9a-fA-F]{1,4}(:[0-9a-fA-F]{1,4}){0,7}|:|::)(\/(1[0-2][0-8]|[1-9][0-9]|[0-9]))
ipv6CidrPattern ==
  RSeq(<< RAlt(<< RSeq(<<H4, ColonH4(0, 7)>>),
                  RLit(":"),
                  RSeq(<<RLit(":"), RLit(":")>>) >>),
          RLit("/"),
          RAlt(<< RSeq(<<RLit("1"), RCls(Rng("0", "2")), RCls(Rng("0", "8"))>>),
                  RSeq(<<RCls(Rng("1", "9")), RCls(Digit)>>),
                  RCls(Digit) >>) >>)

\* [\d\*\/,\-\?]+
CronField ==
  RPlus(RCls(Digit \cup Chars(<<"*", "/", ",", "-", "?">>)))

\* ([\d\*\/,\-\?]+\s+){n}[\d\*\/,\-\?]+
CronPattern(n) ==
  RSeq(<<RRep(RSeq(<<CronField, RPlus(RCls(JsWhiteSpace))>>), n, n), CronField>>)

cronPatterns ==
  <<CronPattern(4), CronPattern(5), CronPattern(6)>>

\* a timestamp pattern of the seconds form only: ^\d{10}$
timestampPatternTenOnly ==
  RRep(RCls(Digit), 10, 10)

\* ^\d{10}$|^\d{13}$
timestampPattern ==
  RAlt(<<RRep(RCls(Digit), 10, 10), RRep(RCls(Digit), 13, 13)>>)

\* ^\d{4}-\d{2}-\d{2}(\s+\d{2}:\d{2}:\d{2})?$
dateTimePattern ==
  RSeq(<< RRep(RCls(Digit), 4, 4), RLit("-"), RRep(RCls(Digit), 2, 2), RLit("-"),
          RRep(RCls(Digit), 2, 2),
          ROpt(RSeq(<< RPlus(RCls(JsWhiteSpace)), RRep(RCls(Digit), 2, 2), RLit(":"),
                       RRep(RCls(Digit), 2, 2), RLit(":"), RRep(RCls(Digit), 2, 2) >>)) >>)

\* ^[A-Za-z0-9+/]*={0,2}$
base64Pattern ==
  RSeq(<<RStar(RCls(AlNum \cup Chars(<<"+", "/">>))), RRep(RLit("="), 0, 2)>>)

\* %[0-9A-Fa-f]{2}
urlEncodedPattern ==
  RSeq(<<RLit("%"), RRep(RCls(HexDigit), 2, 2)>>)

\* [a-zA-Z0-9]([a-zA-Z0-9\-]{0,61}[a-zA-Z0-9])?
DomainLabel ==
  RSeq(<< RCls(AlNum),
          ROpt(RSeq(<<RRep(RCls(AlNum \cup Chars(<<"-">>)), 0, 61), RCls(AlNum)>>)) >>)

\* ^label(\.label)*\.[a-zA-Z]{2,}$
domainPattern ==
  RSeq(<< DomainLabel, RStar(RSeq(<<RLit("."), DomainLabel>>)),
          RLit("."), RRep(RCls(Alpha), 2, Unbounded) >>)

(***************************************************************************)
(* CryptoJS encoders (crypto-js): a WordArray is its sequence of sigBytes  *)
(* bytes.  A JavaScript value that is a string or a WordArray is a record  *)
(* [t |-> "str" | "wa", v |-> ...]; a call that may throw returns          *)
(* [ok |-> BOOLEAN, v |-> ...].                                            *)
(***************************************************************************)
StrV(s) == [t |-> "str", v |-> s]
WaV(b) == [t |-> "wa", v |-> b]
Ok(v) == [ok |-> TRUE, v |-> v]
Thrown(e) == [ok |-> FALSE, v |-> e]

\* the UTF-8 bytes of one code unit (BMP, no surrogates)
\* the concatenation of parts[lo..hi]
RECURSIVE Concat(_, _, _)
Concat(parts, lo, hi) ==
  IF lo > hi THEN <<>>
  ELSE IF lo = hi THEN parts[lo]
  ELSE LET mid == (lo + hi) \div 2
       IN  Concat(parts, lo, mid) \o Concat(parts, mid + 1, hi)

Utf8Unit(c) ==
  IF c < 128 THEN <<c>>
  ELSE IF c < 2048 THEN <<192 + (c \div 64), 128 + (c % 64)>>
  ELSE <<224 + (c \div 4096), 128 + ((c \div 64) % 64), 128 + (c % 64)>>

\* CryptoJS.enc.Utf8.parse
Utf8Parse(s) ==
  Concat([i \in 1..Len(s) |-> Utf8Unit(s[i])], 1, Len(s))

IsCont(b) == b \in 128..191

\* CryptoJS.enc.Utf8.stringify: decodeURIComponent(escape(latin1)), which
\* throws 'Malformed UTF-8 data' on anything but well-formed UTF-8.  The
\* bytes are well-formed iff the first byte and every byte after a complete
\* sequence is a lead byte that starts a complete sequence.
Utf8Stringify(b) ==
  LET Width(i) ==
        IF b[i] < 128 THEN 1
        ELSE IF b[i] \in 194..223 THEN 2
        ELSE IF b[i] \in 224..239 THEN 3
        ELSE IF b[i] \in 240..244 THEN 4
        ELSE 0
      WellFormedAt(i) ==
        LET n == Width(i)
        IN  /\ n > 0
            /\ Len(b) >= i + n - 1
            /\ \A k \in 1..(n - 1) : IsCont(b[i + k])
            /\ (b[i] = 224 => b[i + 1] >= 160)
            /\ (b[i] = 237 => b[i + 1] <= 159)
            /\ (b[i] = 240 => b[i + 1] >= 144)
            /\ (b[i] = 244 => b[i + 1] <= 143)
            /\ (Len(b) >= i + n => ~IsCont(b[i + n]))
      Units(i) ==
        LET n == Width(i)
            cp == IF n = 1 THEN b[i]
                  ELSE IF n = 2 THEN (b[i] - 192) * 64 + (b[i + 1] - 128)
                  ELSE IF n = 3
                  THEN (b[i] - 224) * 4096 + (b[i + 1] - 128) * 64 + (b[i + 2] - 128)
                  ELSE (b[i] - 240) * 262144 + (b[i + 1] - 128) * 4096
                       + (b[i + 2] - 128) * 64 + (b[i + 3] - 128)
        IN  IF cp < 65536 THEN <<cp>>
            ELSE <<55296 + ((cp - 65536) \div 1024), 56320 + ((cp - 65536) % 1024)>>
      wellFormed ==
        /\ b # <<>> => ~IsCont(b[1])
        /\ \A i \in 1..Len(b) : ~IsCont(b[i]) => WellFormedAt(i)
  IN  IF ~wellFormed THEN Thrown("Malformed UTF-8 data")
      ELSE Ok(Concat([i \in 1..Len(b) |-> IF IsCont(b[i]) THEN <<>> ELSE Units(i)], 1, Len(b)))

HexChars == Str(<<"0", "1", "2", "3", "4", "5", "6", "7", "8", "9", "a", "b", "c", "d", "e", "f">>)

\* CryptoJS.enc.Hex.stringify
HexStringify(b) ==
  [i \in 1..(2 * Len(b)) |->
     LET byte == b[(i + 1) \div 2]
     IN  IF i % 2 = 1 THEN HexChars[(byte \div 16) + 1] ELSE HexChars[(byte % 16) + 1]]

\* value of a hexadecimal digit, -1 for any other character
HexVal(c) ==
  IF c \in Rng("0", "9") THEN c - 48
  ELSE IF c \in Rng("a", "f") THEN c - 87
  ELSE IF c \in Rng("A", "F") THEN c - 55
  ELSE -1

\* parseInt(pair, 16) of a substring of at most two characters: the longest
\* hexadecimal prefix after an optional sign, NaN when there is none
ParseInt16(pair) ==
  LET signed == pair # <<>> /\ pair[1] \in Chars(<<"+", "-">>)
      neg == pair # <<>> /\ pair[1] = Ord["-"]
      Parsed(digits) ==
        LET nan == digits = <<>> \/ HexVal(digits[1]) < 0
            Signed(mag) == [nan |-> nan, n |-> IF neg THEN 0 - mag ELSE mag]
        IN  Signed(IF nan THEN 0
                   ELSE IF Len(digits) = 1 \/ HexVal(digits[2]) < 0 THEN HexVal(digits[1])
                   ELSE 16 * HexVal(digits[1]) + HexVal(digits[2]))
  IN  Parsed(IF signed THEN Tail(pair)
             ELSE IF pair # <<>> /\ pair[1] \in JsWhiteSpace THEN TrimStart(pair)
             ELSE pair)

\* CryptoJS.enc.Hex.parse: words[i >>> 3] |= parseInt(substr(i, 2), 16) << (24 - (i % 8) * 4);
\* NaN shifts to 0, a negative value sets every higher bit of its 32-bit word
HexParse(s) ==
  LET nb == (Len(s) + 1) \div 2
      Flooded(val) ==
        [k \in 1..nb |->
           IF \E q \in (k + 1)..nb : ((q - 1) \div 4 = (k - 1) \div 4) /\ val[q] < 0
           THEN 255 ELSE (val[k] + 256) % 256]
  IN  Flooded([k \in 1..nb |->
                 ParseInt16(SubSeq(s, 2 * k - 1, IF 2 * k <= Len(s) THEN 2 * k ELSE Len(s))).n])

Base64Map ==
  Str(<< "A", "B", "C", "D", "E", "F", "G", "H", "I", "J", "K", "L", "M", "N", "O", "P",
         "Q", "R", "S", "T", "U", "V", "W", "X", "Y", "Z", "a", "b", "c", "d", "e", "f",
         "g", "h", "i", "j", "k", "l", "m", "n", "o", "p", "q", "r", "s", "t", "u", "v",
         "w", "x", "y", "z", "0", "1", "2", "3", "4", "5", "6", "7", "8", "9", "+", "/" >>)

\* CryptoJS.enc.Base64.stringify
Base64Stringify(b) ==
  LET at(i) == IF i <= Len(b) THEN b[i] ELSE 0
      triplet(g) == at(3 * g - 2) * 65536 + at(3 * g - 1) * 256 + at(3 * g)
      ch(g, j) == Base64Map[((triplet(g) \div (64 ^ (3 - j))) % 64) + 1]
      groups == (Len(b) + 2) \div 3
  IN  [i \in 1..(4 * groups) |->
         LET g == (i + 3) \div 4
             j == (i - 1) % 4
         IN  IF 3 * (g - 1) + j <= Len(b) THEN ch(g, j) ELSE Ord["="]]

\* reverseMap[charCode] of Base64.parse; undefined behaves as 0 in << and >>>
Base64Rev ==
  [c \in 0..127 |-> IF \E i \in 1..64 : Base64Map[i] = c
                    THEN (CHOOSE i \in 1..64 : Base64Map[i] = c) - 1 ELSE 0]

Rev64(c) ==
  IF c \in 0..127 THEN Base64Rev[c] ELSE 0

\* index of the first padding character (indexOf('=')), or the length
PaddingIndex(s) ==
  LET pads == {i \in 1..Len(s) : s[i] = Ord["="]}
  IN  IF pads = {} THEN Len(s) ELSE (CHOOSE i \in pads : \A j \in pads : i <= j) - 1

\* CryptoJS.enc.Base64.parse (parseLoop): no character is rejected, every
\* position i with i % 4 # 0 before the first '=' yields one byte
Base64Parse(s) ==
  LET n == PaddingIndex(s)
      idx == {i \in 1..(n - 1) : i % 4 # 0}
      nBytes == Cardinality(idx)
      pos(k) == k + ((k - 1) \div 3)
      byte(k) == LET i == pos(k)
                     bits1 == (Rev64(s[i]) * (2 ^ ((i % 4) * 2))) % 256
                     bits2 == Rev64(s[i + 1]) \div (2 ^ (6 - (i % 4) * 2))
                 IN  bits1 + bits2
  IN  [k \in 1..nBytes |-> byte(k)]

\* str.replace(/\+/g, '-').replace(/\//g, '_').replace(/=/g, '')
RECURSIVE ToUrlSafe(_)
ToUrlSafe(s) ==
  IF s = <<>> THEN <<>>
  ELSE LET c == Head(s)
       IN  (IF c = Ord["="] THEN <<>>
            ELSE IF c = Ord["+"] THEN <<Ord["-"]>>
            ELSE IF c = Ord["/"] THEN <<Ord["_"]>>
            ELSE <<c>>) \o ToUrlSafe(Tail(s))

RECURSIVE PadTo4(_)
PadTo4(s) ==
  IF Len(s) % 4 # 0 THEN PadTo4(Append(s, Ord["="])) ELSE s

\* str.replace(/-/g, '+').replace(/_/g, '/'), then '=' until length % 4 = 0
FromUrlSafe(s) ==
  PadTo4([i \in 1..Len(s) |-> IF s[i] = Ord["-"] THEN Ord["+"]
                              ELSE IF s[i] = Ord["_"] THEN Ord["/"] ELSE s[i]])

(***************************************************************************)
(* EncodingUtils                                                           *)
(***************************************************************************)
\* String.prototype.toUpperCase on an encoding, algorithm, mode or padding name
ToUpperCase(n) ==
  CASE n = "utf8" -> "UTF8"
    [] n = "hex" -> "HEX"
    [] n = "base64" -> "BASE64"
    [] n = "base64_urlsafe" -> "BASE64_URLSAFE"
    [] n = "PKCS5Padding" -> "PKCS5PADDING"
    [] n = "PKCS7Padding" -> "PKCS7PADDING"
    [] n = "NoPadding" -> "NOPADDING"
    [] n = "Pkcs7" -> "PKCS7"
    [] n = "aes" -> "AES"
    [] n = "cbc" -> "CBC"
    [] n = "ofb" -> "OFB"
    [] OTHER -> n

\* Array.prototype.includes
Includes(arr, x) ==
  \E i \in 1..Len(arr) : arr[i] = x

\* the loop of EncodingUtils.encode, from the last encoding to the first
RECURSIVE EncodeLoop(_, _, _)
EncodeLoop(result, encodings, i) ==
  IF i < 1 THEN Ok(result)
  ELSE LET encoding == ToUpperCase(encodings[i])
       IN  CASE encoding = "UTF8" -> EncodeLoop(result, encodings, i - 1)
             [] encoding = "HEX" ->
                  EncodeLoop(WaV(HexParse(HexStringify(result.v))), encodings, i - 1)
             [] encoding = "BASE64" ->
                  EncodeLoop(WaV(Base64Parse(Base64Stringify(result.v))), encodings, i - 1)
             [] encoding = "BASE64_URLSAFE" ->
                  Ok(StrV(ToUrlSafe(Base64Stringify(result.v))))
             [] OTHER -> Thrown("unsupported encoding")

\* EncodingUtils.encode(data, encodings): data is a string or a WordArray
EncodingUtils_encode(data, encodings) ==
  LET Finish(looped) ==
        IF ~looped.ok THEN looped
        ELSE IF looped.v.t # "str" THEN Ok(Base64Stringify(looped.v.v))
        ELSE Ok(looped.v.v)
  IN  Finish(EncodeLoop(IF data.t = "str" THEN WaV(Utf8Parse(data.v)) ELSE data,
                        encodings, Len(encodings)))

\* the loop of EncodingUtils.decode, from the first encoding to the last
RECURSIVE DecodeLoop(_, _, _)
DecodeLoop(result, encodings, i) ==
  IF i > Len(encodings) THEN Ok(result)
  ELSE LET upperEncoding == ToUpperCase(encodings[i])
           Stringified(u) == IF u.ok THEN DecodeLoop(StrV(u.v), encodings, i + 1) ELSE u
       IN  CASE upperEncoding = "UTF8" ->
                  IF result.t # "str"
                  THEN Stringified(Utf8Stringify(result.v))
                  ELSE DecodeLoop(result, encodings, i + 1)
             [] upperEncoding = "HEX" ->
                  DecodeLoop(IF result.t = "str" THEN WaV(HexParse(result.v)) ELSE result,
                             encodings, i + 1)
             [] upperEncoding = "BASE64" ->
                  DecodeLoop(IF result.t = "str" THEN WaV(Base64Parse(result.v)) ELSE result,
                             encodings, i + 1)
             [] upperEncoding = "BASE64_URLSAFE" ->
                  DecodeLoop(IF result.t = "str" THEN WaV(Base64Parse(FromUrlSafe(result.v)))
                             ELSE result, encodings, i + 1)
             [] OTHER -> Thrown("unsupported encoding")

\* EncodingUtils.decode(data, encodings): data is a string; the result is a
\* string, the Base64 text of the bytes when they are not UTF-8
EncodingUtils_decode(data, encodings) ==
  LET AsText(bytes, u) == IF u.ok THEN u ELSE Ok(Base64Stringify(bytes))
      Finish(looped) ==
        IF ~looped.ok THEN looped
        ELSE IF looped.v.t # "str" THEN AsText(looped.v.v, Utf8Stringify(looped.v.v))
        ELSE Ok(looped.v.v)
  IN  Finish(DecodeLoop(StrV(data), encodings, 1))

\* EncodingUtils.processPlaintextEncoding
processPlaintextEncoding(plaintext, plainEncoding) ==
  IF Len(plainEncoding) > 0 /\ ~Includes(plainEncoding, "UTF8")
  THEN EncodingUtils_decode(plaintext, plainEncoding)
  ELSE Ok(plaintext)

\* EncodingUtils.processPlaintextDecoding
processPlaintextDecoding(plaintext, plainEncoding) ==
  IF Len(plainEncoding) > 0 /\ ~Includes(plainEncoding, "UTF8")
  THEN EncodingUtils_encode(StrV(plaintext), plainEncoding)
  ELSE Ok(plaintext)

(***************************************************************************)
(* Block cipher primitives.  AES (crypto-js) and SM4 (sm-crypto) are       *)
(* library code; each is represented by a keyed permutation of 16-byte     *)
(* blocks.  Everything around the permutation (key and IV handling, modes, *)
(* padding, formatting) follows the libraries.                             *)
(***************************************************************************)
BlockSize == 16

\* bitwise exclusive or of two numbers of n bits
RECURSIVE XorBits(_, _, _)
XorBits(a, b, n) ==
  IF n = 0 THEN 0
  ELSE (IF a % 2 = b % 2 THEN 0 ELSE 1) + 2 * XorBits(a \div 2, b \div 2, n - 1)

XorTable ==
  [a \in 0..15, b \in 0..15 |-> XorBits(a, b, 4)]

\* bitwise exclusive or of two bytes
Xor(a, b) ==
  16 * XorTable[a \div 16, b \div 16] + XorTable[a % 16, b % 16]

\* xorBlock: words missing from the shorter operand count as 0
XorBlock(x, y) ==
  [i \in 1..Len(x) |-> IF i <= Len(y) THEN Xor(x[i], y[i]) ELSE x[i]]

\* a block of BlockSize bytes taken from data at byte offset off; bytes past
\* the end of the WordArray read as 0
BlockAt(data, off) ==
  [i \in 1..BlockSize |-> IF off + i <= Len(data) THEN data[off + i] ELSE 0]

\* byte i of the key schedule: the key bytes repeated (an empty key gives 0)
KeyByte(key, i) ==
  IF key = <<>> THEN 0 ELSE key[((i - 1) % Len(key)) + 1]

\* the block permutation under key: per-byte keyed addition, then a rotation
\* of the byte positions; salt tells AES (7) from SM4 (11)
EncBlock(key, salt, blk) ==
  [i \in 1..BlockSize |->
     LET j == (i % BlockSize) + 1
     IN  (blk[j] + KeyByte(key, j) + salt * j) % 256]

\* the inverse permutation
DecBlock(key, salt, blk) ==
  [j \in 1..BlockSize |->
     LET i == ((j + BlockSize - 2) % BlockSize) + 1
     IN  (blk[i] + 512 * BlockSize - KeyByte(key, j) - salt * j) % 256]

\* CTR: the last word of the counter block is incremented ((w + 1) | 0)
RECURSIVE IncCounter(_, _)
IncCounter(ctr, i) ==
  IF i < BlockSize - 3 THEN ctr
  ELSE IF ctr[i] < 255 THEN [ctr EXCEPT ![i] = ctr[i] + 1]
  ELSE IncCounter([ctr EXCEPT ![i] = 0], i - 1)

\* CryptoJS.mode[...].Encryptor/Decryptor over whole blocks: data is processed
\* block by block, prev is the IV, the previous ciphertext block or the
\* keystream state.  dir is "enc" or "dec".
RECURSIVE ProcessBlocks(_, _, _, _, _, _, _)
ProcessBlocks(mode, dir, key, salt, data, off, prev) ==
  IF off >= Len(data) THEN <<>>
  ELSE LET blk == BlockAt(data, off)
           out ==
             CASE mode = "ECB" ->
                    IF dir = "enc" THEN EncBlock(key, salt, blk) ELSE DecBlock(key, salt, blk)
               [] mode = "CBC" ->
                    IF dir = "enc" THEN EncBlock(key, salt, XorBlock(blk, prev))
                    ELSE XorBlock(DecBlock(key, salt, blk), prev)
               [] mode = "CFB" -> XorBlock(blk, EncBlock(key, salt, prev))
               [] mode = "OFB" -> XorBlock(blk, EncBlock(key, salt, prev))
               [] mode = "CTR" -> XorBlock(blk, EncBlock(key, salt, prev))
           next ==
             CASE mode = "ECB" -> prev
               [] mode = "CBC" -> IF dir = "enc" THEN out ELSE blk
               [] mode = "CFB" -> IF dir = "enc" THEN out ELSE blk
               [] mode = "OFB" -> EncBlock(key, salt, prev)
               [] mode = "CTR" -> IncCounter(prev, BlockSize)
       IN  out \o ProcessBlocks(mode, dir, key, salt, data, off + BlockSize, next)

\* the IV as a block: words the IV lacks are undefined and xor as 0
IvBlock(iv) ==
  [i \in 1..BlockSize |-> IF i <= Len(iv) THEN iv[i] ELSE 0]

\* CryptoJS.pad.Pkcs7.pad
Pkcs7Pad(data) ==
  LET n == BlockSize - (Len(data) % BlockSize)
  IN  data \o [i \in 1..n |-> n]

\* the keys of CryptoJS.pad and CryptoJS.mode
CryptoJS_pad == {"Pkcs7", "AnsiX923", "Iso10126", "Iso97971", "ZeroPadding", "NoPadding"}
CryptoJS_mode == {"CBC", "CFB", "CTR", "CTRGladman", "OFB", "ECB"}

(***************************************************************************)
(* AESCipher                                                               *)
(***************************************************************************)
\* an absent (undefined) string field of a profile
Undefined == "undefined"

\* KeyMaterial: {value, encoding}; present is FALSE for a missing field
KeyMaterial(value, encoding) == [present |-> TRUE, value |-> value, encoding |-> encoding]
NoKeyMaterial == [present |-> FALSE, value |-> <<>>, encoding |-> <<>>]

\* "let parsedKey = key.value; if (key.encoding && key.encoding.length > 0)
\*    parsedKey = EncodingUtils.decode(key.value, key.encoding)"
ParseKey(key) ==
  IF ~key.present THEN Thrown("TypeError")
  ELSE IF Len(key.encoding) > 0 THEN EncodingUtils_decode(key.value, key.encoding)
  ELSE Ok(key.value)

\* "let parsedIv = iv?.value || ''; if (iv?.encoding && iv.encoding.length > 0) ..."
ParseIv(iv) ==
  IF ~iv.present THEN Ok(<<>>)
  ELSE IF Len(iv.encoding) > 0 THEN EncodingUtils_decode(iv.value, iv.encoding)
  ELSE Ok(iv.value)

\* CryptoJS.mode[name] || CryptoJS.mode.CBC
ModeLookup(name) ==
  IF name \in CryptoJS_mode THEN name ELSE "CBC"

\* CryptoJS.pad[name] || CryptoJS.pad.Pkcs7
PadLookup(name) ==
  IF name \in CryptoJS_pad THEN name ELSE "Pkcs7"

\* String.prototype.replace('PADDING', '') on the upper-cased padding name
StripPADDING(n) ==
  CASE n = "PKCS5PADDING" -> "PKCS5"
    [] n = "PKCS7PADDING" -> "PKCS7"
    [] n = "NOPADDING" -> "NO"
    [] OTHER -> n

\* the destructuring defaults "mode = 'CBC', padding = 'Pkcs7'"
ModeOf(config) == IF config.mode = Undefined THEN "CBC" ELSE config.mode
PaddingOf(config) == IF config.padding = Undefined THEN "Pkcs7" ELSE config.padding

AesSalt == 7

\* the mode and padding AESCipher.encrypt hands to CryptoJS.AES.encrypt
AesEncryptOptions(config) ==
  LET Options(modeUpper) ==
        IF modeUpper \in {"ECB", "CBC", "CFB", "OFB", "CTR"}
        THEN [mode |-> ModeLookup(modeUpper),
              padding |-> PadLookup(ToUpperCase(PaddingOf(config))),
              iv |-> modeUpper # "ECB"]
        ELSE [mode |-> "CBC", padding |-> "Pkcs7", iv |-> TRUE]
  IN  Options(ToUpperCase(ModeOf(config)))

\* the mode and padding AESCipher.decrypt hands to CryptoJS.AES.decrypt
AesDecryptOptions(config) ==
  LET Options(modeUpper, paddingUpper) ==
        [mode |-> ModeLookup(modeUpper),
         padding |-> IF modeUpper \in {"ECB", "CBC"} THEN PadLookup(paddingUpper)
                     ELSE "NoPadding",
         iv |-> modeUpper \in {"CBC", "CFB", "OFB", "CTR"}]
  IN  Options(ToUpperCase(ModeOf(config)), StripPADDING(ToUpperCase(PaddingOf(config))))

\* CryptoJS.AES.encrypt(message, key, cfg).toString(): the message is UTF-8
\* parsed, padded, processed, and formatted as Base64 (no salt: key is a WordArray)
CryptoJS_AES_encrypt(message, keyWordArray, ivWordArray, opts) ==
  LET iv == IF opts.iv THEN IvBlock(ivWordArray) ELSE IvBlock(<<>>)
      Process(padded) ==
        Base64Stringify(SubSeq(ProcessBlocks(opts.mode, "enc", keyWordArray, AesSalt, padded, 0, iv),
                               1, Len(padded)))
      Pad(data) ==
        Process(IF opts.padding = "NoPadding" THEN data ELSE Pkcs7Pad(data))
  IN  Pad(Utf8Parse(message))

Salted == Str(<<"S", "a", "l", "t", "e", "d", "_", "_">>)

\* format.OpenSSL.parse: Base64, then a 'Salted__' header and its salt are dropped
OpenSSLParse(text) ==
  LET Unsalted(raw) ==
        IF Len(raw) >= 8 /\ SubSeq(raw, 1, 8) = Salted THEN SubSeq(raw, 17, Len(raw)) ELSE raw
  IN  Unsalted(Base64Parse(text))

\* CryptoJS.AES.decrypt(ciphertext, key, cfg): every started block is processed
\* (flush), Pkcs7.unpad subtracts the low byte of the last word from sigBytes
\* without validating it.  The result is [words, sigBytes].
CryptoJS_AES_decrypt(ciphertext, keyWordArray, ivWordArray, opts) ==
  LET iv == IF opts.iv THEN IvBlock(ivWordArray) ELSE IvBlock(<<>>)
      Unpad(words, sig) ==
        [words |-> words,
         sigBytes |-> IF opts.padding = "NoPadding" \/ sig = 0 THEN sig
                      ELSE sig - words[4 * ((sig - 1) \div 4) + 4]]
      Process(data) ==
        Unpad(ProcessBlocks(opts.mode, "dec", keyWordArray, AesSalt, data, 0, iv), Len(data))
  IN  Process(OpenSSLParse(ciphertext))

\* the first sigBytes bytes of a WordArray (none when sigBytes <= 0)
SigBytesOf(wa) ==
  IF wa.sigBytes <= 0 THEN <<>> ELSE SubSeq(wa.words, 1, wa.sigBytes)

\* AESCipher.encrypt
AESCipher_encrypt(plaintext, config) ==
  LET Run(parsedKey, parsedIv) ==
        IF ~parsedKey.ok THEN parsedKey
        ELSE IF ~parsedIv.ok THEN parsedIv
        ELSE Ok(CryptoJS_AES_encrypt(plaintext, Utf8Parse(parsedKey.v), Utf8Parse(parsedIv.v),
                                     AesEncryptOptions(config)))
  IN  Run(ParseKey(config.key), ParseIv(config.iv))

\* a decrypt that keeps trailing zero bytes
KeepTrailingZeros(b) ==
  b

\* "for (let i = sigBytes - 1; i >= 0; i--) if (bytes[i] === 0) actualLength = i; else break"
RECURSIVE TrimTrailingZeros(_)
TrimTrailingZeros(b) ==
  IF b # <<>> /\ b[Len(b)] = 0 THEN TrimTrailingZeros(SubSeq(b, 1, Len(b) - 1)) ELSE b

\* new TextDecoder().decode(bytes): UTF-8 with U+FFFD for every ill-formed
\* subsequence, never throws
RECURSIVE TextDecode(_)
TextDecode(b) ==
  IF b = <<>> THEN <<>>
  ELSE LET b1 == b[1]
           n == IF b1 < 128 THEN 1
                ELSE IF b1 \in 194..223 THEN 2
                ELSE IF b1 \in 224..239 THEN 3
                ELSE IF b1 \in 240..244 THEN 4
                ELSE 0
           lo2 == IF b1 = 224 THEN 160 ELSE IF b1 = 240 THEN 144 ELSE 128
           hi2 == IF b1 = 237 THEN 159 ELSE IF b1 = 244 THEN 143 ELSE 191
           okAt(i) == i <= Len(b) /\ (IF i = 2 THEN b[i] \in lo2..hi2 ELSE IsCont(b[i]))
           good == IF n = 0 THEN 0
                   ELSE IF \A i \in 2..n : okAt(i) THEN n
                   ELSE 0 - Cardinality({k \in 1..n : \A i \in 2..k : okAt(i)})
           whole == Utf8Stringify(SubSeq(b, 1, n))
       IN  IF good > 0 THEN whole.v \o TextDecode(SubSeq(b, n + 1, Len(b)))
           ELSE IF good = 0 THEN <<65533>> \o TextDecode(Tail(b))
           ELSE <<65533>> \o TextDecode(SubSeq(b, 1 - good, Len(b)))

\* TextDecoder drops a leading byte order mark
TextDecoderDecode(b) ==
  LET DropBom(t) == IF t # <<>> /\ t[1] = 65279 THEN Tail(t) ELSE t
  IN  DropBom(TextDecode(b))

\* AESCipher.decrypt
AESCipher_decrypt(ciphertext, config) ==
  LET ToText(decrypted) ==
        IF ToUpperCase(ModeOf(config)) = "CTR"
        THEN Ok(TextDecoderDecode(TrimTrailingZeros(SigBytesOf(decrypted))))
        ELSE Utf8Stringify(SigBytesOf(decrypted))
      Run(parsedKey, parsedIv) ==
        IF ~parsedKey.ok THEN parsedKey
        ELSE IF ~parsedIv.ok THEN parsedIv
        ELSE ToText(CryptoJS_AES_decrypt(ciphertext, Utf8Parse(parsedKey.v),
                                         Utf8Parse(parsedIv.v), AesDecryptOptions(config)))
  IN  Run(ParseKey(config.key), ParseIv(config.iv))

(***************************************************************************)
(* SM4Cipher (sm-crypto sm4)                                               *)
(***************************************************************************)
Sm4Salt == 11

\* hexToArray of sm-crypto: parseInt of each pair; NaN acts as 0 in the cipher
Sm4HexToArray(s) ==
  [k \in 1..((Len(s) + 1) \div 2) |->
     (ParseInt16(SubSeq(s, 2 * k - 1, IF 2 * k <= Len(s) THEN 2 * k ELSE Len(s))).n + 256) % 256]

\* arrayToUtf8 of sm-crypto: lead bytes select the length, continuation bytes
\* are masked and not validated; String.fromCodePoint throws above 0x10FFFF
RECURSIVE Sm4ArrayToUtf8(_)
Sm4ArrayToUtf8(b) ==
  IF b = <<>> THEN Ok(<<>>)
  ELSE LET b1 == b[1]
           at(i) == IF i <= Len(b) THEN b[i] % 64 ELSE 0
           n == IF b1 \in 240..247 THEN 4 ELSE IF b1 \in 224..239 THEN 3
                ELSE IF b1 \in 192..223 THEN 2 ELSE 1
           cp == IF n = 4 THEN (b1 % 8) * 262144 + at(2) * 4096 + at(3) * 64 + at(4)
                 ELSE IF n = 3 THEN (b1 % 16) * 4096 + at(2) * 64 + at(3)
                 ELSE IF n = 2 THEN (b1 % 32) * 64 + at(2)
                 ELSE b1
           units == IF cp < 65536 THEN <<cp>>
                    ELSE <<55296 + ((cp - 65536) \div 1024), 56320 + ((cp - 65536) % 1024)>>
       IN  IF cp > 1114111 THEN Thrown("RangeError")
           ELSE LET rest == Sm4ArrayToUtf8(SubSeq(b, n + 1, Len(b)))
                IN  IF rest.ok THEN Ok(units \o rest.v) ELSE rest

\* "CryptoJS.enc.Utf8.parse(parsedKey).toString(CryptoJS.enc.Hex).padEnd(32, '0').substring(0, 32)"
Sm4KeyHex(parsed) ==
  LET PadEnd(hex) == [i \in 1..32 |-> IF i <= Len(hex) THEN hex[i] ELSE Ord["0"]]
  IN  PadEnd(HexStringify(Utf8Parse(parsed)))

\* sm4ModeMap[mode.toUpperCase()] || 'cbc'
Sm4Mode(config) ==
  IF ToUpperCase(ModeOf(config)) = "ECB" THEN "ECB" ELSE "CBC"

\* the prefix of whole blocks: "while (restLen >= BLOCK)"
WholeBlocks(data) ==
  SubSeq(data, 1, Len(data) - (Len(data) % BlockSize))

\* sm4(inArray, key, cryptFlag, {mode, iv}) with padding 'pkcs#7'; the key is
\* always 16 bytes here; iv is <<>> when the option is undefined
sm4_crypt(input, keyHex, mode, ivHex, dir) ==
  LET Unpad(outArray) ==
        LET len == Len(outArray)
            paddingCount == IF len = 0 THEN 0 ELSE outArray[len]
        IN  IF \E i \in 1..paddingCount : len - i < 0 \/ outArray[len - i + 1] # paddingCount
            THEN Thrown("padding is invalid")
            ELSE Sm4ArrayToUtf8(SubSeq(outArray, 1, len - paddingCount))
      Run(key, iv) ==
        IF mode = "CBC" /\ Len(iv) # BlockSize THEN Thrown("iv is invalid")
        ELSE IF dir = "enc"
        THEN Ok(HexStringify(ProcessBlocks(mode, "enc", key, Sm4Salt,
                                           Pkcs7Pad(Utf8Parse(input)), 0, IvBlock(iv))))
        ELSE Unpad(ProcessBlocks(mode, "dec", key, Sm4Salt,
                                 WholeBlocks(Sm4HexToArray(input)), 0, IvBlock(iv)))
  IN  Run(Sm4HexToArray(keyHex), Sm4HexToArray(ivHex))

\* SM4Cipher.encrypt and SM4Cipher.decrypt
SM4Cipher_crypt(text, config, dir) ==
  LET Run(parsedKey, parsedIv) ==
        IF ~parsedKey.ok THEN parsedKey
        ELSE IF ~parsedIv.ok THEN parsedIv
        ELSE sm4_crypt(text, Sm4KeyHex(parsedKey.v),
                       Sm4Mode(config),
                       IF parsedIv.v # <<>> THEN Sm4KeyHex(parsedIv.v) ELSE <<>>, dir)
  IN  Run(ParseKey(config.key), ParseIv(config.iv))

SM4Cipher_encrypt(plaintext, config) ==
  SM4Cipher_crypt(plaintext, config, "enc")

SM4Cipher_decrypt(ciphertext, config) ==
  SM4Cipher_crypt(ciphertext, config, "dec")

(***************************************************************************)
(* RSACipher (jsencrypt).  A key text names a key pair; the public-key     *)
(* operation is a permutation keyed by the pair and by the random bytes of *)
(* the PKCS#1 padding, the private-key operation rejects (returns false)   *)
(* a ciphertext that was not made for its pair.                            *)
(***************************************************************************)
RsaPublicKey(id) == Str(<<"P", "U", "B">>) \o <<48 + id>>
RsaPrivateKey(id) == Str(<<"P", "R", "V">>) \o <<48 + id>>
RsaPairs == {1, 2}

\* the key pair a key text parses to, 0 when it is not a key
RsaPairOf(text) ==
  LET pairs == {id \in RsaPairs : text \in {RsaPublicKey(id), RsaPrivateKey(id)}}
  IN  IF pairs = {} THEN 0 ELSE CHOOSE id \in pairs : TRUE

\* JSEncrypt.encrypt: false (here not ok) when the key does not parse
JSEncrypt_encrypt(keyText, text, rnd) ==
  LET Run(id, m) ==
        IF id = 0 THEN Thrown("false")
        ELSE Ok(Base64Stringify(<<id, rnd>> \o [i \in 1..Len(m) |-> (m[i] + rnd + id) % 256]))
  IN  Run(RsaPairOf(keyText), Utf8Parse(text))

\* JSEncrypt.decrypt: false when the key has no private part or the padding
\* check fails
JSEncrypt_decrypt(keyText, b64) ==
  LET Run(id, c) ==
        IF id = 0 \/ keyText # RsaPrivateKey(id) \/ Len(c) < 2 \/ c[1] # id THEN Thrown("false")
        ELSE Ok(TextDecode([i \in 1..(Len(c) - 2) |-> (c[i + 2] + 512 - c[2] - id) % 256]))
  IN  Run(RsaPairOf(keyText), Base64Parse(b64))

\* RSACipher.encrypt
RSACipher_encrypt(plaintext, config, rnd) ==
  LET Format(encrypted) ==
        IF ~encrypted.ok THEN Thrown("RSA encryption failed")
        ELSE IF Includes(config.cipherEncoding, "HEX")
        THEN Ok(HexStringify(Base64Parse(encrypted.v)))
        ELSE IF Includes(config.cipherEncoding, "BASE64_URLSAFE")
        THEN Ok(ToUrlSafe(encrypted.v))
        ELSE encrypted
      Run(processedPlaintext) ==
        IF ~processedPlaintext.ok THEN processedPlaintext
        ELSE Format(JSEncrypt_encrypt(config.publicKey.value, processedPlaintext.v, rnd))
  IN  IF ~config.publicKey.present \/ config.publicKey.value = <<>>
      THEN Thrown("RSA encryption needs a public key")
      ELSE Run(processPlaintextEncoding(plaintext, config.plainEncoding))

\* RSACipher.decrypt
RSACipher_decrypt(ciphertext, config) ==
  LET Finish(decrypted) ==
        IF ~decrypted.ok THEN Thrown("RSA decryption failed")
        ELSE processPlaintextDecoding(decrypted.v, config.plainEncoding)
  IN  IF ~config.privateKey.present \/ config.privateKey.value = <<>>
      THEN Thrown("RSA decryption needs a private key")
      ELSE Finish(JSEncrypt_decrypt(config.privateKey.value,
                                    IF Includes(config.cipherEncoding, "HEX")
                                    THEN Base64Stringify(HexParse(ciphertext))
                                    ELSE IF Includes(config.cipherEncoding, "BASE64_URLSAFE")
                                    THEN FromUrlSafe(ciphertext)
                                    ELSE ciphertext))

(***************************************************************************)
(* CipherUtils.  A profile's algorithm is kept as the parts of             *)
(* algorithm.split('/'); <<>> stands for a profile without the field.      *)
(***************************************************************************)
\* algParts[n] ? algParts[n].toUpperCase() : dflt
AlgPart(algorithm, n, dflt) ==
  IF Len(algorithm) >= n /\ algorithm[n] # "" THEN ToUpperCase(algorithm[n]) ELSE dflt

\* the post-processing loop of CipherUtils.encrypt over cipherEncoding
RECURSIVE CipherEncodeLoop(_, _, _, _)
CipherEncodeLoop(ciphertext, wordArray, cipherEncoding, i) ==
  IF i > Len(cipherEncoding) THEN Ok(ciphertext)
  ELSE LET encoding == ToUpperCase(cipherEncoding[i])
           Hex(text) == CipherEncodeLoop(text, HexParse(text), cipherEncoding, i + 1)
           Other(e) ==
             IF ~e.ok THEN e ELSE CipherEncodeLoop(e.v, Base64Parse(e.v), cipherEncoding, i + 1)
       IN  CASE encoding = "BASE64" ->
                  CipherEncodeLoop(ciphertext, wordArray, cipherEncoding, i + 1)
             [] encoding = "HEX" -> Hex(HexStringify(wordArray))
             [] encoding = "BASE64_URLSAFE" ->
                  Ok(ToUrlSafe(Base64Stringify(wordArray)))
             [] OTHER -> Other(EncodingUtils_encode(WaV(wordArray), <<cipherEncoding[i]>>))

\* "const algorithmConfig = {...config, mode: mode, padding: padding}" of
\* CipherUtils.encrypt
AlgorithmConfig(config) ==
  [config EXCEPT !.mode = AlgPart(config.algorithm, 2, "CBC"),
                 !.padding = AlgPart(config.algorithm, 3, "PKCS5PADDING")]

\* CipherUtils.encrypt(plaintext, config); rnd is the randomness of RSA padding
CipherUtils_encrypt(plaintext, config, rnd) ==
  LET algorithmConfig == AlgorithmConfig(config)
      Sm4Format(sm4) ==
        IF sm4.ok /\ Includes(config.cipherEncoding, "BASE64")
        THEN Ok(Base64Stringify(HexParse(sm4.v)))
        ELSE sm4
      Encode(ciphertext) ==
        IF ~ciphertext.ok THEN ciphertext
        ELSE IF Len(config.cipherEncoding) > 0
        THEN CipherEncodeLoop(ciphertext.v, Base64Parse(ciphertext.v), config.cipherEncoding, 1)
        ELSE ciphertext
      Run(mainAlgorithm, processedPlaintext) ==
        IF ~processedPlaintext.ok THEN processedPlaintext
        ELSE CASE mainAlgorithm = "AES" ->
                    Encode(AESCipher_encrypt(processedPlaintext.v, algorithmConfig))
               [] mainAlgorithm = "SM4" ->
                    Encode(Sm4Format(SM4Cipher_encrypt(processedPlaintext.v, algorithmConfig)))
               [] mainAlgorithm = "RSA" ->
                    Encode(RSACipher_encrypt(processedPlaintext.v, config, rnd))
               [] OTHER -> Thrown("unsupported algorithm")
  IN  IF config.algorithm = <<>> THEN Thrown("TypeError")
      ELSE Run(ToUpperCase(config.algorithm[1]),
               processPlaintextEncoding(plaintext, config.plainEncoding))

\* the pre-processing loop of CipherUtils.decrypt, from the last encoding to the first
RECURSIVE CipherDecodeLoop(_, _, _)
CipherDecodeLoop(processedCiphertext, cipherEncoding, i) ==
  IF i < 1 THEN Ok(processedCiphertext)
  ELSE LET encoding == ToUpperCase(cipherEncoding[i])
           Other(d) == IF ~d.ok THEN d ELSE CipherDecodeLoop(d.v, cipherEncoding, i - 1)
       IN  CASE encoding = "BASE64" ->
                  CipherDecodeLoop(processedCiphertext, cipherEncoding, i - 1)
             [] encoding = "HEX" ->
                  CipherDecodeLoop(Base64Stringify(HexParse(processedCiphertext)),
                                   cipherEncoding, i - 1)
             [] encoding = "BASE64_URLSAFE" ->
                  CipherDecodeLoop(FromUrlSafe(processedCiphertext), cipherEncoding, i - 1)
             [] OTHER -> Other(EncodingUtils_decode(processedCiphertext, <<cipherEncoding[i]>>))

\* CipherUtils.decrypt(ciphertext, config)
CipherUtils_decrypt(ciphertext, config) ==
  LET Finish(plaintext) ==
        IF ~plaintext.ok THEN plaintext
        ELSE processPlaintextDecoding(plaintext.v, config.plainEncoding)
      Run(mainAlgorithm, processedCiphertext) ==
        IF ~processedCiphertext.ok THEN processedCiphertext
        ELSE CASE mainAlgorithm = "AES" ->
                    Finish(AESCipher_decrypt(processedCiphertext.v, config))
               [] mainAlgorithm = "SM4" ->
                    Finish(SM4Cipher_decrypt(IF ~Includes(config.cipherEncoding, "HEX")
                                             THEN HexStringify(Base64Parse(processedCiphertext.v))
                                             ELSE processedCiphertext.v, config))
               [] mainAlgorithm = "RSA" ->
                    Finish(RSACipher_decrypt(processedCiphertext.v, config))
               [] OTHER -> Thrown("unsupported algorithm")
  IN  IF config.algorithm = <<>> THEN Thrown("TypeError")
      ELSE Run(ToUpperCase(config.algorithm[1]),
               IF Len(config.cipherEncoding) > 1
               THEN CipherDecodeLoop(ciphertext, config.cipherEncoding,
                                     Len(config.cipherEncoding))
               ELSE Ok(ciphertext))

\* normalizeString of the cipher test panel: trim, CRLF and CR to LF
RECURSIVE NormalizeNewlines(_)
NormalizeNewlines(s) ==
  IF s = <<>> THEN <<>>
  ELSE IF Len(s) >= 2 /\ s[1] = CR /\ s[2] = LF THEN <<LF>> \o NormalizeNewlines(SubSeq(s, 3, Len(s)))
  ELSE IF s[1] = CR THEN <<LF>> \o NormalizeNewlines(Tail(s))
  ELSE <<s[1]>> \o NormalizeNewlines(Tail(s))

normalizeString(str) ==
  NormalizeNewlines(Trim(str))

(***************************************************************************)
(* textutils.js                                                            *)
(***************************************************************************)
\* the ranges of EXTENDED_PRINTABLE_REGEX
EXTENDED_PRINTABLE_RANGES ==
  << <<32, 126>>, <<160, 255>>, <<8192, 8303>>, <<8352, 8399>>, <<8448, 8527>>,
     <<8704, 8959>>, <<8960, 9215>>, <<9216, 9279>>, <<9472, 9599>>, <<9600, 9631>>,
     <<9632, 9727>>, <<9728, 9983>>, <<9984, 10175>>, <<10240, 10495>>, <<10496, 10623>>,
     <<10624, 10751>>, <<10752, 11007>>, <<11008, 11263>>, <<11264, 11359>>, <<11360, 11391>>,
     <<11392, 11519>>, <<11520, 11567>>, <<11568, 11647>>, <<11648, 11743>>, <<11776, 11903>>,
     <<11904, 12031>>, <<12032, 12255>>, <<12272, 12287>>, <<12288, 12351>>, <<12352, 12447>>,
     <<12448, 12543>>, <<12544, 12591>>, <<12592, 12687>>, <<12688, 12703>>, <<12704, 12735>>,
     <<12736, 12783>>, <<12784, 12799>>, <<12800, 13055>>, <<13056, 13311>>, <<13312, 19903>>,
     <<19904, 19967>>, <<19968, 40959>>, <<40960, 42127>>, <<42128, 42191>>, <<44032, 55215>>,
     <<63744, 64255>>, <<65040, 65055>>, <<65072, 65103>>, <<65104, 65135>>, <<65280, 65519>> >>

IsPrintable(c) ==
  \E i \in 1..Len(EXTENDED_PRINTABLE_RANGES) :
     c >= EXTENDED_PRINTABLE_RANGES[i][1] /\ c <= EXTENDED_PRINTABLE_RANGES[i][2]

\* analyzePrintableCharacters(text) for a string; the ratio printable/total is
\* kept as the two counts, isReadable is printableRatio >= 0.5
analyzePrintableCharacters(text) ==
  LET totalChars == Len(text)
      printableChars == Cardinality({i \in 1..Len(text) : IsPrintable(text[i])})
  IN  IF text = <<>>
      THEN [totalChars |-> 0, printableChars |-> 0, isReadable |-> FALSE]
      ELSE [totalChars |-> totalChars, printableChars |-> printableChars,
            isReadable |-> 2 * printableChars >= totalChars]

\* isTextReadable(text, threshold) with threshold = num/den
isTextReadable(text, num, den) ==
  LET a == analyzePrintableCharacters(text)
  IN  IF a.totalChars = 0 THEN 0 >= num
      ELSE den * a.printableChars >= num * a.totalChars

\* an isTextReadable that wants more than the threshold
isTextReadableStrict(value, num, den) ==
  LET a == analyzePrintableCharacters(IF value.t = "str" THEN value.v ELSE <<>>)
  IN  a.totalChars # 0 /\ den * a.printableChars > num * a.totalChars

\* analyzePrintableCharacters for any JavaScript value:
\* "if (!text || typeof text !== 'string')" returns the zero analysis
analyzePrintableCharactersOf(value) ==
  IF value.t # "str" THEN [totalChars |-> 0, printableChars |-> 0, isReadable |-> FALSE]
  ELSE analyzePrintableCharacters(value.v)

\* isTextReadable for any JavaScript value: "analysis.printableRatio >= threshold"
isTextReadableOf(value, num, den) ==
  isTextReadable(IF value.t = "str" THEN value.v ELSE <<>>, num, den)

(***************************************************************************)
(* popup: isLikelyRSACipher and detectContentType                          *)
(***************************************************************************)
\* a stored profile; isNull marks a null entry of the stored list
Profile(name, algorithm, algorithmType, mode, padding, key, iv, publicKey, privateKey, plainEncoding, cipherEncoding) ==
  [isNull |-> FALSE, name |-> name, algorithm |-> algorithm, algorithmType |-> algorithmType,
   mode |-> mode, padding |-> padding, key |-> key, iv |-> iv,
   publicKey |-> publicKey, privateKey |-> privateKey,
   plainEncoding |-> plainEncoding, cipherEncoding |-> cipherEncoding]

\* config.algorithm?.toUpperCase().includes(sub), for sub one of 'RSA', 'CFB',
\* 'CTR': no other name of the vocabulary contains one of them
AlgorithmIncludes(config, sub) ==
  \E i \in 1..Len(config.algorithm) : ToUpperCase(config.algorithm[i]) = sub

\* "configs.some(config => config.algorithm?.toUpperCase().includes('RSA') ||
\*    config.algorithmType?.toUpperCase() === 'RSA')"; a null entry reached by
\* the scan throws
\* a scan that reports an RSA profile whatever is stored
HasRSAConfigAssumed(configs, i) ==
  Ok(TRUE)

RECURSIVE HasRSAConfig(_, _)
HasRSAConfig(configs, i) ==
  IF i > Len(configs) THEN Ok(FALSE)
  ELSE IF configs[i].isNull THEN Thrown("TypeError")
  ELSE IF AlgorithmIncludes(configs[i], "RSA") \/ ToUpperCase(configs[i].algorithmType) = "RSA"
  THEN Ok(TRUE)
  ELSE HasRSAConfig(configs, i + 1)

typicalRSALengths == {344, 172, 256, 128}

\* StorageUtils.getItem('keyConfigs'): the stored list, or a rejected read
StorageGet(store) ==
  IF store.fails THEN Thrown("storage") ELSE Ok(store.keyConfigs)

\* the part of isLikelyRSACipher before the storage read: does it go on to
\* read the stored profiles?
RSAShapeOk(content) ==
  LET trimmedContent == Trim(content)
  IN  Test(base64Pattern, trimmedContent) /\ Len(trimmedContent) >= 50

\* an isLikelyRSACipher without the second length check
isLikelyRSACipherFrom50(content, store) ==
  LET Scan(result) ==
        IF ~result.ok THEN FALSE
        ELSE LET hasRSAConfig == HasRSAConfig(result.v, 1)
             IN  hasRSAConfig.ok /\ hasRSAConfig.v
  IN  IF ~RSAShapeOk(content) THEN FALSE ELSE Scan(StorageGet(store))

\* isLikelyRSACipher(content): its try/catch turns a failed read or a throwing
\* scan into "return false"
isLikelyRSACipher(content, store) ==
  LET trimmedContent == Trim(content)
      isTypicalLength == Len(trimmedContent) \in typicalRSALengths
      Decide(hasRSAConfig) ==
        IF ~hasRSAConfig.ok THEN FALSE
        ELSE hasRSAConfig.v /\ (isTypicalLength \/ Len(trimmedContent) > 100)
      Scan(result) ==
        IF ~result.ok THEN FALSE ELSE Decide(HasRSAConfig(result.v, 1))
  IN  IF ~RSAShapeOk(content) THEN FALSE ELSE Scan(StorageGet(store))

None == "none"

\* the rules of detectContentType before the RSA heuristic, first match wins
StructuralRules(trimmedContent) ==
  IF Test(ipv4Pattern, trimmedContent) THEN "ip"
  ELSE IF /\ IncludesChar(trimmedContent, ":")
          /\ ~Test(RPlus(RCls(Digit \cup Chars(<<".">>))), trimmedContent)
          /\ (Test(ipv6FullRegex, trimmedContent) \/ Test(ipv6CompressedRegex, trimmedContent))
  THEN "ipv6"
  ELSE IF IncludesChar(trimmedContent, "/") /\ Test(cidrPattern, trimmedContent) THEN "cidr"
  ELSE IF /\ IncludesChar(trimmedContent, ":") /\ IncludesChar(trimmedContent, "/")
          /\ Test(ipv6CidrPattern, trimmedContent)
  THEN "ipv6cidr"
  ELSE IF \E n \in 1..Len(cronPatterns) : Test(cronPatterns[n], trimmedContent) THEN "cron"
  ELSE IF Test(timestampPattern, trimmedContent) THEN "timestamp"
  ELSE IF Test(dateTimePattern, trimmedContent) THEN "datetime"
  ELSE None

\* decodeURIComponent: %XX escapes are decoded as UTF-8, a malformed escape
\* or ill-formed UTF-8 throws URIError
RECURSIVE PercentBytes(_, _)
PercentBytes(s, n) ==
  IF n = 0 THEN Ok(<<>>)
  ELSE IF Len(s) < 3 \/ s[1] # Ord["%"] \/ HexVal(s[2]) < 0 \/ HexVal(s[3]) < 0
  THEN Thrown("URIError")
  ELSE LET Prepend(rest) ==
             IF rest.ok THEN Ok(<<16 * HexVal(s[2]) + HexVal(s[3])>> \o rest.v) ELSE rest
       IN  Prepend(PercentBytes(SubSeq(s, 4, Len(s)), n - 1))

RECURSIVE decodeURIComponent(_)
decodeURIComponent(s) ==
  IF s = <<>> THEN Ok(<<>>)
  ELSE LET Prepend(units, rest) == IF rest.ok THEN Ok(units \o rest.v) ELSE rest
           Decoded(n, bytes, units) ==
             IF n = 0 \/ ~bytes.ok \/ ~units.ok THEN Thrown("URIError")
             ELSE Prepend(units.v, decodeURIComponent(SubSeq(s, 3 * n + 1, Len(s))))
           Sequence(n, bytes) ==
             Decoded(n, bytes, IF bytes.ok THEN Utf8Stringify(bytes.v) ELSE bytes)
           Escape(first) ==
             LET b1 == first.v[1]
                 n == IF b1 < 128 THEN 1 ELSE IF b1 \in 194..223 THEN 2
                      ELSE IF b1 \in 224..239 THEN 3 ELSE IF b1 \in 240..244 THEN 4 ELSE 0
             IN  IF ~first.ok THEN first ELSE Sequence(n, PercentBytes(s, n))
       IN  IF s[1] # Ord["%"]
           THEN Prepend(<<s[1]>>, decodeURIComponent(Tail(s)))
           ELSE Escape(PercentBytes(s, 1))

http == Str(<<"h", "t", "t", "p">>)

\* the rules of detectContentType after the sweep; 'encode' is the default
TailRules(trimmedContent) ==
  LET DecodesToHttp(decoded) == decoded.ok /\ StartsWith(ToLower(decoded.v), http)
  IN  IF StartsWith(ToLower(trimmedContent), http) THEN "url"
      ELSE IF /\ Search(urlEncodedPattern, trimmedContent)
              /\ DecodesToHttp(decodeURIComponent(trimmedContent))
      THEN "url"
      ELSE IF Test(domainPattern, trimmedContent) THEN "domain"
      ELSE IF /\ Test(base64Pattern, trimmedContent)
              /\ Len(trimmedContent) % 4 = 0
              /\ Len(trimmedContent) > 10
      THEN "encode"
      ELSE "encode"

\* "if (trimmedContent.length > 10)": the guard of the sweep
SweepGuard(trimmedContent) ==
  Len(trimmedContent) > 10

\* an isCFBMode that sends every profile to the printable-ratio heuristic
isCFBModeAlways(config) ==
  TRUE

\* isCFBMode of the sweep
isCFBMode(config) ==
  \/ AlgorithmIncludes(config, "CFB")
  \/ (config.mode # Undefined /\ ToUpperCase(config.mode) = "CFB")
  \/ AlgorithmIncludes(config, "CTR")
  \/ (config.mode # Undefined /\ ToUpperCase(config.mode) = "CTR")

\* CipherUtils.decrypt(trimmedContent, config) as called by the sweep
TrialDecrypt(trimmedContent, config) ==
  IF config.isNull THEN Thrown("TypeError") ELSE CipherUtils_decrypt(trimmedContent, config)

\* the sweep without its inner try/catch
InnerCatchRethrows(attempt) ==
  attempt

\* the inner try/catch of the sweep: "catch (err) { continue; }"
InnerCatch(attempt) ==
  IF attempt.ok THEN attempt ELSE Ok("continue")

\* the body of the sweep for one profile: "encrypted" (return), "continue"
\* (next profile), or a thrown error; threw tells whether the decryption
\* threw, yielded whether "decrypted && decrypted !== trimmedContent" held,
\* analysed whether analyzePrintableCharacters was consulted
SweepBody(trimmedContent, config) ==
  LET Judge(decrypted) ==
        LET consider == decrypted.ok /\ decrypted.v # <<>> /\ decrypted.v # trimmedContent
            heuristic == consider /\ isCFBMode(config)
        IN  [outcome |->
               InnerCatch(IF ~decrypted.ok THEN decrypted
                          ELSE IF ~consider THEN Ok("continue")
                          ELSE IF heuristic
                          THEN (IF analyzePrintableCharacters(decrypted.v).isReadable
                                THEN Ok("encrypted") ELSE Ok("continue"))
                          ELSE Ok("encrypted")),
             analysed |-> heuristic,
             threw |-> ~decrypted.ok,
             yielded |-> consider]
  IN  Judge(TrialDecrypt(trimmedContent, config))

\* the outer try/catch of the sweep around the storage read:
\* "catch (err) { console.log(...) }" falls through to the URL rules
OuterCatch(read) ==
  IF read.ok THEN read ELSE Ok(<<>>)

\* the longest stored profile list considered
MaxProfiles == 2

(***************************************************************************)
(* State                                                                   *)
(***************************************************************************)
VARIABLES
  content,        \* PopUp: the text of the textarea
  contentType,    \* PopUp: the detected type shown
  store,          \* chrome storage: the list under 'keyConfigs'
  pc,             \* position of the running detectContentType call
  evalText,       \* the content the running call was given
  configs,        \* the profile list read by the sweep (a local of the call)
  cfgIdx,         \* the profile the sweep is at (a local of the call)
  sawProfiles,    \* a storage read of the call returned a non-empty list
  readFailed,     \* a storage read of the call was rejected
  trials,         \* the profiles CipherUtils.decrypt was called with, in order
  analysed,       \* the profiles analyzePrintableCharacters was consulted for
  thrown,         \* the profiles whose trial decryption threw
  yielded,        \* the profiles whose trial returned a non-empty text other than the input
  accepted,       \* the stored profile whose trial made the sweep return, if any
  tag,            \* the value the call returned, None before that
  raised,         \* an error escaped the call
  payload,        \* codec: the payload given to EncodingUtils.encode
  chain,          \* codec: the encoding chain
  encoded,        \* codec: result of encode
  decoded,        \* codec: result of decode
  testText,       \* cipher test panel: the text to encrypt
  testConfig,     \* cipher test panel: the selected profile, if any
  encryptResult,  \* cipher test panel: result of CipherUtils.encrypt
  decryptResult,  \* cipher test panel: result of CipherUtils.decrypt
  toast,          \* cipher test panel: the message of the last full test
  text,           \* textutils: the value given to analyzePrintableCharacters
  analysis,       \* textutils: the result of analyzePrintableCharacters, if computed
  readable,       \* textutils: the verdict of isTextReadable, if computed
  tool,           \* CipherTool: the state {algorithm, model, padding} as last rendered
  queue,          \* CipherTool: the state after the queued setState calls
  editedConfig,   \* ConfigEditor: the edited profile as last rendered
  queuedConfig,   \* ConfigEditor: the profile of a queued setEditedConfig, if any
  isSyncingRef,   \* CipherTool: isSyncingRef.current
  mounted,        \* CipherTool: the effects of the first render have run
  managerConfigs, \* KeyConfigManager: the state "configs"
  keyConfigs,     \* KeyConfigManager: the list in storage under storageKey
  selectedConfig, \* KeyConfigManager: the name of the selected profile
  isDialogOpen,   \* KeyConfigManager: the dialog is shown
  editingConfig,  \* KeyConfigManager: the profile handed to ConfigEditor, if any
  newConfigName,  \* KeyConfigManager: the text of the name input
  currentPage,    \* KeyConfigManager: the page of the list
  saves,          \* KeyConfigManager: handlers waiting at "await saveConfigsToStorage"
  calls,          \* KeyConfigManager: the handlers that have reached their await so far
  notice,         \* KeyConfigManager: the last toast, with the profile it is about
  inflight,       \* PopUp: the storage reads of detectContentType calls not answered yet
  changes,        \* PopUp: the content changes so far
  algorithmSelect, \* options page: the algorithm chosen in #algorithmSelect
  optionsText,    \* options page: the value of #testText
  encryptedText,  \* options page: the value of #encryptedText
  decryptedText,  \* options page: the value of #decryptedText
  testResult,     \* options page: the message shown in #testResult
  encryptionKeys, \* chrome storage: the record under 'encryptionKeys', if any
  isPreloading,   \* i18n: the module variable isPreloading
  preloadCompleted, \* i18n: the module variable preloadCompleted
  preloadedTranslations, \* i18n: per language "none", "loaded" or "empty" ({})
  callers,        \* i18n: the position of each call of preloadTranslations
  loads,          \* i18n: per language, the imports started by load passes
  passes,         \* i18n: the load passes started
  currentLanguage, \* LanguageManager: this.currentLanguage
  shownLanguage,  \* the language last passed to the listeners, if any
  isInitializing, \* i18n: the module variable isInitializing
  hasLocalStorage, \* the environment defines localStorage
  browserLanguage, \* navigator.language, reduced to its language code
  storedLanguage, \* the value under LANGUAGE_STORAGE_KEY in the storage read, if any
  writes,         \* switchLanguage calls waiting at "await this.saveLanguage(language)"
  userLanguage,   \* the language of the last switchLanguage call that was accepted, if any
  switches,       \* the switchLanguage calls so far
  toolContent,    \* EncodeTool: the prop content
  results,        \* EncodeTool: the state results, if not {}
  detectedFormat, \* EncodeTool: the state detectedFormat
  activeFormat,   \* EncodeTool: the state activeFormat (the tab shown)
  lastProcessedContent, \* EncodeTool: lastProcessedContentRef.current
  debounceTimer,  \* EncodeTool: the content of the pending debounce timer, if any
  tabClicked      \* EncodeTool: a format button has been clicked since the mount

callVars == <<pc, evalText, configs, cfgIdx, sawProfiles, readFailed, trials, analysed, thrown, yielded, accepted, tag, raised>>
popupVars == <<content, contentType, store, callVars>>
codecVars == <<payload, chain, encoded, decoded>>
cipherVars == <<testText, testConfig, encryptResult, decryptResult, toast>>
textVars == <<text, analysis, readable>>
editorVars == <<tool, queue, editedConfig, queuedConfig, isSyncingRef, mounted>>
managerVars == <<managerConfigs, keyConfigs, selectedConfig, isDialogOpen, editingConfig,
                 newConfigName, currentPage, saves, calls, notice>>
raceVars == <<inflight, changes>>
optionsVars == <<algorithmSelect, optionsText, encryptedText, decryptedText, testResult,
                 encryptionKeys>>
preloadVars == <<isPreloading, preloadCompleted, preloadedTranslations, callers, loads, passes>>
languageVars == <<currentLanguage, shownLanguage, isInitializing, hasLocalStorage,
                  browserLanguage, storedLanguage, writes, userLanguage, switches>>
encodeVars == <<toolContent, results, detectedFormat, activeFormat, lastProcessedContent,
                debounceTimer, tabClicked>>
restVars == <<optionsVars, preloadVars, languageVars, encodeVars>>
pageVars == <<managerVars, raceVars, restVars>>
besidesManager == <<raceVars, restVars>>
besidesRace == <<managerVars, restVars>>
besidesOptions == <<managerVars, raceVars, preloadVars, languageVars, encodeVars>>
besidesPreload == <<managerVars, raceVars, optionsVars, languageVars, encodeVars>>
besidesLanguage == <<managerVars, raceVars, optionsVars, preloadVars, encodeVars>>
besidesEncode == <<managerVars, raceVars, optionsVars, preloadVars, languageVars>>
vars == <<popupVars, codecVars, cipherVars, textVars, editorVars, pageVars>>

\* a result that has not been computed yet
Pending == [ok |-> FALSE, v |-> "pending"]

PopupInit(stores) ==
  /\ content = <<>>
  /\ contentType = "encode"
  /\ store \in stores
  /\ pc = "idle"
  /\ evalText = <<>>
  /\ configs = <<>>
  /\ cfgIdx = 0
  /\ sawProfiles = FALSE
  /\ readFailed = FALSE
  /\ trials = <<>>
  /\ analysed = {}
  /\ thrown = {}
  /\ yielded = {}
  /\ accepted = {}
  /\ tag = None
  /\ raised = FALSE

CodecIdle ==
  /\ payload = StrV(<<>>)
  /\ chain = <<>>
  /\ encoded = Pending
  /\ decoded = Pending

CipherIdle ==
  /\ testText = <<>>
  /\ testConfig = {}
  /\ encryptResult = <<>>
  /\ decryptResult = <<>>
  /\ toast = "none"

TextIdle ==
  /\ text = StrV(<<>>)
  /\ analysis = {}
  /\ readable = {}

(***************************************************************************)
(* CipherTool inside ConfigEditor.  A string with '/' separators is kept   *)
(* as the sequence of its parts, '' is "" and a missing field Undefined.   *)
(***************************************************************************)
ALGORITHMS == {"AES", "SM4", "RSA"}

\* MODE_MAP.AES and MODE_MAP.SM4 of the cipher tool
MODES == {"CBC", "ECB", "CFB", "OFB", "CTR"}
NEED_PADDING_MODES == {"CBC", "ECB"}
PADDINGS == <<"PKCS5Padding", "PKCS7Padding">>

\* MODE_MAP[algorithm] || []
MODE_MAP(algorithm) ==
  IF algorithm \in {"AES", "SM4"} THEN <<"CBC", "ECB", "CFB", "OFB", "CTR">> ELSE <<>>

\* a || b on string fields: undefined and '' are falsy
OrElse(a, b) ==
  IF a \notin {Undefined, ""} THEN a ELSE b

\* parseCombined(combined) for a string that holds a '/'
parseCombined(combined) ==
  [algorithm |-> OrElse(combined[1], ""),
   model |-> IF Len(combined) >= 2 THEN OrElse(combined[2], "") ELSE "",
   padding |-> IF Len(combined) >= 3 THEN OrElse(combined[3], "") ELSE ""]

\* the initialValue BasicConfigEditor hands to CipherTool
InitialValue(config) ==
  [algorithm |-> config.algorithm,
   model |-> OrElse(config.mode, OrElse(config.model, "")),
   padding |-> OrElse(config.padding, "")]

\* "parsed" and "newParsed" of CipherTool
Parsed(initialValue) ==
  IF Len(initialValue.algorithm) >= 2 THEN parseCombined(initialValue.algorithm)
  ELSE [algorithm |-> IF initialValue.algorithm = <<>> THEN "" ELSE initialValue.algorithm[1],
        model |-> initialValue.model,
        padding |-> initialValue.padding]

\* the useState initializers of CipherTool
InitialState(initialValue) ==
  LET parsed == Parsed(initialValue)
      modes == MODE_MAP(OrElse(parsed.algorithm, "AES"))
  IN  [algorithm |-> OrElse(parsed.algorithm, "AES"),
       model |-> OrElse(parsed.model, IF modes # <<>> THEN modes[1] ELSE ""),
       padding |-> OrElse(parsed.padding, PADDINGS[1])]

\* ConfigManager.createNewConfig: the algorithm fields of a new profile
createNewConfig ==
  [algorithm |-> <<"AES", "CBC", "PKCS5Padding">>, algorithmType |-> "AES", mode |-> "CBC",
   model |-> Undefined, padding |-> "PKCS5Padding"]

\* ConfigManager.updateAlgorithmConfig(config, algorithmData): the algorithm
\* fields of the result, the other fields are copied
updateAlgorithmConfig(config, algorithmData) ==
  LET algorithm == algorithmData.algorithm
      model == algorithmData.model
      padding == algorithmData.padding
      isRSA == algorithm = "RSA"
  IN  [algorithm |-> IF isRSA THEN <<"RSA">>
                     ELSE <<algorithm>> \o (IF model # "" THEN <<model>> ELSE <<>>)
                                        \o (IF padding # "" THEN <<padding>> ELSE <<>>),
       algorithmType |-> OrElse(algorithm, config.algorithmType),
       mode |-> IF isRSA THEN "" ELSE OrElse(model, config.mode),
       model |-> IF isRSA THEN "" ELSE OrElse(model, config.model),
       padding |-> IF isRSA THEN "" ELSE padding]

\* the effect on [initialValue]: the setState calls it queues on state
SyncFromInitialValue(state, newParsed) ==
  [algorithm |-> IF newParsed.algorithm # "" /\ newParsed.algorithm # state.algorithm
                 THEN newParsed.algorithm ELSE state.algorithm,
   model |-> IF newParsed.model # "" /\ newParsed.model # state.model
             THEN newParsed.model ELSE state.model,
   padding |-> IF newParsed.padding # "" /\ newParsed.padding # state.padding
               THEN newParsed.padding ELSE state.padding]

\* the effect on [algorithm]: "if (modes.length > 0 && !modes.includes(model))
\* setModel(modes[0]); if (modes.length === 0) setModel('')", queued on pending
EnsureModel(state, pending) ==
  LET modes == MODE_MAP(state.algorithm)
  IN  IF modes = <<>> THEN [pending EXCEPT !.model = ""]
      ELSE IF ~Includes(modes, state.model) THEN [pending EXCEPT !.model = modes[1]]
      ELSE pending

\* the effect on [model]: "if (!NEED_PADDING_MODES.has(model)) setPadding('')
\* else setPadding(prev => prev || PADDINGS[0])", queued on pending
AdjustPadding(state, pending) ==
  IF state.model \notin NEED_PADDING_MODES THEN [pending EXCEPT !.padding = ""]
  ELSE [pending EXCEPT !.padding = OrElse(@, PADDINGS[1])]

\* the editor opened on a new profile, before the effects of the first render
EditorIdle ==
  /\ editedConfig = createNewConfig
  /\ tool = InitialState(InitialValue(createNewConfig))
  /\ queue = tool
  /\ queuedConfig = {}
  /\ isSyncingRef = FALSE
  /\ mounted = FALSE

\* no render is due: every queued update has been rendered
Settled ==
  mounted /\ queue = tool /\ queuedConfig = {}

\* one render of ConfigEditor and CipherTool with the queued updates, and the
\* effects of that commit in the order of their declaration
Render ==
  /\ ~Settled
  /\ LET state == queue
         config == IF queuedConfig = {} THEN editedConfig ELSE CHOOSE c \in queuedConfig : TRUE
         parentRendered == ~mounted \/ queuedConfig # {}
         algorithmChanged == ~mounted \/ state.algorithm # tool.algorithm
         modelChanged == ~mounted \/ state.model # tool.model
         anyChanged == ~mounted \/ state # tool
         synced == IF parentRendered
                   THEN SyncFromInitialValue(state, Parsed(InitialValue(config))) ELSE state
         syncing == IF synced # state THEN TRUE ELSE isSyncingRef
         ensured == IF algorithmChanged THEN EnsureModel(state, synced) ELSE synced
         adjusted == IF modelChanged THEN AdjustPadding(state, ensured) ELSE ensured
     IN  /\ tool' = state
         /\ editedConfig' = config
         /\ queue' = adjusted
         /\ isSyncingRef' = IF anyChanged THEN FALSE ELSE syncing
         /\ queuedConfig' = IF anyChanged /\ ~syncing
                            THEN {updateAlgorithmConfig(config, state)} ELSE {}
         /\ mounted' = TRUE
  /\ UNCHANGED <<popupVars, codecVars, cipherVars, textVars, pageVars>>

\* the user picks an algorithm: "onValueChange={(v) => setAlgorithm(v)}"
SelectAlgorithm(v) ==
  /\ Settled
  /\ queue' = [tool EXCEPT !.algorithm = v]
  /\ UNCHANGED <<tool, editedConfig, queuedConfig, isSyncingRef, mounted,
                 popupVars, codecVars, cipherVars, textVars, pageVars>>

\* the user picks a mode; the select is rendered for AES and SM4
SelectModel(v) ==
  /\ Settled
  /\ tool.algorithm # "RSA"
  /\ Includes(MODE_MAP(tool.algorithm), v)
  /\ queue' = [tool EXCEPT !.model = v]
  /\ UNCHANGED <<tool, editedConfig, queuedConfig, isSyncingRef, mounted,
                 popupVars, codecVars, cipherVars, textVars, pageVars>>

\* the user picks a padding; the select is rendered when modelRequiresPadding
SelectPadding(v) ==
  /\ Settled
  /\ tool.algorithm # "RSA"
  /\ tool.model \in NEED_PADDING_MODES
  /\ queue' = [tool EXCEPT !.padding = v]
  /\ UNCHANGED <<tool, editedConfig, queuedConfig, isSyncingRef, mounted,
                 popupVars, codecVars, cipherVars, textVars, pageVars>>

\* the profile is saved and the editor is opened on it again: CipherTool is
\* mounted anew (normalizeConfig keeps every field the profile holds)
Reopen ==
  /\ Settled
  /\ tool' = InitialState(InitialValue(editedConfig))
  /\ queue' = tool'
  /\ isSyncingRef' = FALSE
  /\ mounted' = FALSE
  /\ UNCHANGED <<editedConfig, queuedConfig, popupVars, codecVars, cipherVars, textVars, pageVars>>

(***************************************************************************)
(* KeyConfigManager: the profile list, its dialog and its pagination.  A   *)
(* handler that awaits saveConfigsToStorage is kept in "saves" from its    *)
(* call until its continuation has run.                                    *)
(***************************************************************************)
\* calls of addConfig, saveConfig and deleteConfig that reach the storage
MaxCalls == 2

\* pages the pagination can show
MaxPage == 2

itemsPerPage == 5

\* ConfigValidator.validateRequiredFields(config)
validateRequiredFields(config) ==
  IF Trim(config.name) = <<>> THEN [isValid |-> FALSE, message |-> "EMPTY_CONFIG_NAME"]
  ELSE IF config.algorithm # <<>> /\ config.algorithm[1] = "RSA"
  THEN IF ~config.publicKey.present \/ Trim(config.publicKey.value) = <<>>
          \/ ~config.privateKey.present \/ Trim(config.privateKey.value) = <<>>
       THEN [isValid |-> FALSE, message |-> "EMPTY_RSA_KEYS"]
       ELSE [isValid |-> TRUE, message |-> ""]
  ELSE IF ~config.key.present \/ Trim(config.key.value) = <<>>
  THEN [isValid |-> FALSE, message |-> "EMPTY_KEY_VALUE"]
  ELSE [isValid |-> TRUE, message |-> ""]

\* the profile addConfig builds for a name
NewConfig(name) ==
  Profile(Trim(name), <<"AES", "CBC", "PKCS5Padding">>, "AES", "CBC", "PKCS5Padding",
          KeyMaterial(<<>>, <<"UTF8">>), KeyMaterial(<<>>, <<"UTF8">>),
          KeyMaterial(<<>>, <<"UTF8">>), KeyMaterial(<<>>, <<"UTF8">>),
          <<"UTF8">>, <<"BASE64">>)

\* a name check that finds no profile
NameNeverExists(list, name) ==
  FALSE

\* configs.some(c => c.name === name)
NameExists(list, name) ==
  \E i \in 1..Len(list) : list[i].name = name

\* configs.map(config => config.name === updatedConfig.name ? updatedConfig : config)
updateConfigInList(list, updatedConfig) ==
  [i \in 1..Len(list) |-> IF list[i].name = updatedConfig.name THEN updatedConfig ELSE list[i]]

\* configs.filter(c => c.name !== configName)
RECURSIVE removeConfigFromList(_, _)
removeConfigFromList(list, configName) ==
  IF list = <<>> THEN <<>>
  ELSE IF Head(list).name = configName THEN removeConfigFromList(Tail(list), configName)
  ELSE <<Head(list)>> \o removeConfigFromList(Tail(list), configName)

\* Math.ceil(configs.length / itemsPerPage)
totalPages(list) ==
  (Len(list) + itemsPerPage - 1) \div itemsPerPage

\* configs.slice(startIndex, endIndex) of ConfigList
currentConfigs(list, page) ==
  LET startIndex == (page - 1) * itemsPerPage
      endIndex == startIndex + itemsPerPage
  IN  IF startIndex >= Len(list) THEN <<>>
      ELSE SubSeq(list, startIndex + 1, IF endIndex < Len(list) THEN endIndex ELSE Len(list))

\* the page after a deletion: deleteConfig leaves currentPage alone
PageAfterDelete(page, list) ==
  page

\* the sequence without its i-th element
RemoveAt(q, i) ==
  SubSeq(q, 1, i - 1) \o SubSeq(q, i + 1, Len(q))

\* a handler at its await, with the list it hands to saveConfigsToStorage
Saving(op, updatedConfigs, config, configName) ==
  [op |-> op, updatedConfigs |-> updatedConfigs, config |-> config, configName |-> configName,
   selectedConfig |-> selectedConfig]

\* toast.error(message) and toast.success(message)
Toast(message, config) ==
  [message |-> message, config |-> config]

\* the component before it is mounted
ManagerIdle ==
  /\ managerConfigs = <<>>
  /\ keyConfigs = <<>>
  /\ selectedConfig = <<>>
  /\ isDialogOpen = FALSE
  /\ editingConfig = {}
  /\ newConfigName = <<>>
  /\ currentPage = 1
  /\ saves = <<>>
  /\ calls = 0
  /\ notice = Toast("none", {})

\* no detectContentType call is waiting
RaceIdle ==
  /\ inflight = <<>>
  /\ changes = 0

OptionsIdle ==
  /\ algorithmSelect = <<>>
  /\ optionsText = <<>>
  /\ encryptedText = <<>>
  /\ decryptedText = <<>>
  /\ testResult = "none"
  /\ encryptionKeys = {}

\* the bound on the calls of preloadTranslations
MaxCallers == 3

Callers == 1..MaxCallers

\* "const languages = ['zh', 'en']"
languages == <<"zh", "en">>

\* a call of preloadTranslations: not made yet, awaiting getTranslations of
\* languages[at], in the polling loop, or returned
Caller(position, at, waited) == [pc |-> position, at |-> at, waited |-> waited]

\* the module state after evaluation: "let preloadedTranslations = {}; let
\* isPreloading = false; let preloadCompleted = false"
PreloadFresh ==
  /\ isPreloading = FALSE
  /\ preloadCompleted = FALSE
  /\ preloadedTranslations = [l \in {"zh", "en"} |-> "none"]
  /\ callers = [i \in Callers |-> Caller("idle", 0, FALSE)]
  /\ loads = [l \in {"zh", "en"} |-> 0]
  /\ passes = 0

\* "const SUPPORTED_LANGUAGES = { ZH: 'zh', EN: 'en' }"
SUPPORTED_LANGUAGES == {"zh", "en"}

\* "const DEFAULT_LANGUAGE = SUPPORTED_LANGUAGES.EN"
DEFAULT_LANGUAGE == "en"

\* isSupportedLanguage
isSupportedLanguage(language) ==
  language \in SUPPORTED_LANGUAGES

\* detectInitialLanguage, given what getStoredLanguage returned (a set: empty
\* for null) and the browser language
detectInitialLanguage(stored, browser) ==
  IF stored # {} /\ \A l \in stored : isSupportedLanguage(l)
  THEN CHOOSE l \in stored : TRUE
  ELSE IF isSupportedLanguage(browser) THEN browser
  ELSE DEFAULT_LANGUAGE

\* the language manager of a page where nothing is stored and the initial
\* detection is over
LanguageIdle ==
  /\ currentLanguage = DEFAULT_LANGUAGE
  /\ shownLanguage = {}
  /\ isInitializing = FALSE
  /\ hasLocalStorage = TRUE
  /\ browserLanguage = DEFAULT_LANGUAGE
  /\ storedLanguage = {}
  /\ writes = <<>>
  /\ userLanguage = {}
  /\ switches = 0

\* EncodeTool is not mounted
EncodeIdle ==
  /\ toolContent = <<>>
  /\ results = {}
  /\ detectedFormat = None
  /\ activeFormat = "base64"
  /\ lastProcessedContent = <<>>
  /\ debounceTimer = {}
  /\ tabClicked = FALSE

RestIdle ==
  OptionsIdle /\ PreloadFresh /\ LanguageIdle /\ EncodeIdle

PageIdle ==
  ManagerIdle /\ RaceIdle /\ RestIdle

\* the effect on [configs, selectedConfig]: the first profile is selected
\* when none is
SelectFirst(list, selected) ==
  IF list # <<>> /\ selected = <<>> THEN list[1].name ELSE selected

\* the "new" button of the dialog trigger
OpenNew ==
  /\ ~isDialogOpen
  /\ editingConfig' = {}
  /\ newConfigName' = <<>>
  /\ isDialogOpen' = TRUE
  /\ UNCHANGED <<managerConfigs, keyConfigs, selectedConfig, currentPage, saves,
                 calls, notice, popupVars, codecVars, cipherVars, textVars, editorVars, besidesManager>>

\* typing in the name input of the create form
SetNewConfigName(name) ==
  /\ isDialogOpen
  /\ editingConfig = {}
  /\ newConfigName' = name
  /\ UNCHANGED <<managerConfigs, keyConfigs, selectedConfig, isDialogOpen, editingConfig,
                 currentPage, saves,
                 calls, notice, popupVars, codecVars, cipherVars, textVars, editorVars, besidesManager>>

\* onOpenChange(false) and the cancel buttons
CloseDialog ==
  /\ isDialogOpen
  /\ isDialogOpen' = FALSE
  /\ UNCHANGED <<managerConfigs, keyConfigs, selectedConfig, editingConfig, newConfigName,
                 currentPage, saves,
                 calls, notice, popupVars, codecVars, cipherVars, textVars, editorVars, besidesManager>>

\* addConfig up to "await saveConfigsToStorage(updatedConfigs)"
AddConfig ==
  /\ isDialogOpen
  /\ editingConfig = {}
  /\ calls < MaxCalls
  /\ IF Trim(newConfigName) = <<>>
     THEN notice' = Toast("enter_name", {}) /\ UNCHANGED <<saves, calls>>
     ELSE IF NameExists(managerConfigs, Trim(newConfigName))
     THEN notice' = Toast("name_exists", {}) /\ UNCHANGED <<saves, calls>>
     ELSE /\ saves' = Append(saves, Saving("add", Append(managerConfigs, NewConfig(newConfigName)),
                                            {NewConfig(newConfigName)}, Trim(newConfigName)))
          /\ calls' = calls + 1
          /\ UNCHANGED notice
  /\ UNCHANGED <<managerConfigs, keyConfigs, selectedConfig, isDialogOpen, editingConfig,
                 newConfigName, currentPage,
                 popupVars, codecVars, cipherVars, textVars, editorVars, besidesManager>>

\* the edit button of a visible row
EditConfig(configName) ==
  /\ ~isDialogOpen
  /\ NameExists(currentConfigs(managerConfigs, currentPage), configName)
  /\ editingConfig' = {managerConfigs[CHOOSE i \in 1..Len(managerConfigs) :
                                        /\ managerConfigs[i].name = configName
                                        /\ \A j \in 1..(i - 1) : managerConfigs[j].name # configName]}
  /\ isDialogOpen' = TRUE
  /\ UNCHANGED <<managerConfigs, keyConfigs, selectedConfig, newConfigName, currentPage, saves, calls, notice, popupVars, codecVars, cipherVars, textVars, editorVars, besidesManager>>

\* handleSave of ConfigEditor with the edited profile, and saveConfig up to
\* its await
HandleSave(updatedConfig) ==
  /\ isDialogOpen
  /\ editingConfig # {}
  /\ calls < MaxCalls
  /\ LET validationResult == validateRequiredFields(updatedConfig)
     IN  IF ~validationResult.isValid
         THEN notice' = Toast(validationResult.message, {}) /\ UNCHANGED <<saves, calls>>
         ELSE /\ saves' = Append(saves, Saving("save", updateConfigInList(managerConfigs, updatedConfig),
                                                {updatedConfig}, updatedConfig.name))
              /\ calls' = calls + 1
              /\ UNCHANGED notice
  /\ UNCHANGED <<managerConfigs, keyConfigs, selectedConfig, isDialogOpen, editingConfig,
                 newConfigName, currentPage,
                 popupVars, codecVars, cipherVars, textVars, editorVars, besidesManager>>

\* deleteConfig up to its await, from the delete button of a visible row or
\* from the editor (handleDelete: the name of the profile the editor was given)
DeleteConfig(configName, confirmed) ==
  /\ \/ ~isDialogOpen /\ NameExists(currentConfigs(managerConfigs, currentPage), configName)
     \/ isDialogOpen /\ \E c \in editingConfig : c.name = configName
  /\ calls < MaxCalls
  /\ IF Len(managerConfigs) <= 1
     THEN notice' = Toast("min_configs", {}) /\ UNCHANGED <<saves, calls>>
     ELSE IF ~confirmed
     THEN UNCHANGED <<saves, calls, notice>>
     ELSE /\ saves' = Append(saves, Saving("delete", removeConfigFromList(managerConfigs, configName),
                                            {}, configName))
          /\ calls' = calls + 1
          /\ UNCHANGED notice
  /\ UNCHANGED <<managerConfigs, keyConfigs, selectedConfig, isDialogOpen, editingConfig,
                 newConfigName, currentPage,
                 popupVars, codecVars, cipherVars, textVars, editorVars, besidesManager>>

\* the storage answers a waiting handler: StorageUtils.setItem has written the
\* list or is rejected, and the continuation of the handler runs with the
\* effects of the render that follows
Resume(i, rejected) ==
  /\ i \in 1..Len(saves)
  /\ saves' = RemoveAt(saves, i)
  /\ LET h == saves[i]
     IN  IF rejected
         THEN /\ notice' = Toast("SAVE_FAILED", {})
              /\ UNCHANGED <<managerConfigs, keyConfigs, selectedConfig, isDialogOpen,
                             editingConfig, newConfigName, currentPage>>
         ELSE /\ keyConfigs' = h.updatedConfigs
              /\ managerConfigs' = h.updatedConfigs
              /\ currentPage' = IF h.op = "delete" THEN PageAfterDelete(currentPage, h.updatedConfigs)
                                ELSE currentPage
              /\ selectedConfig' =
                   SelectFirst(h.updatedConfigs,
                               IF h.op = "delete" /\ h.selectedConfig = h.configName
                               THEN (IF h.updatedConfigs # <<>> THEN h.updatedConfigs[1].name ELSE <<>>)
                               ELSE selectedConfig)
              /\ newConfigName' = IF h.op = "add" THEN <<>> ELSE newConfigName
              /\ editingConfig' = IF h.op = "add" THEN h.config
                                  ELSE IF h.op = "save" THEN {} ELSE editingConfig
              /\ isDialogOpen' = IF h.op = "add" THEN TRUE
                                 ELSE IF h.op = "save" THEN FALSE ELSE isDialogOpen
              /\ notice' = Toast(IF h.op = "add" THEN "created"
                                 ELSE IF h.op = "save" THEN "saved" ELSE "deleted", h.config)
  /\ UNCHANGED <<calls, popupVars, codecVars, cipherVars, textVars, editorVars, besidesManager>>

\* handlePageChange of ConfigPagination, shown when totalPages > 1
PageChange(page) ==
  /\ ~isDialogOpen
  /\ totalPages(managerConfigs) > 1
  /\ page >= 1 /\ page <= totalPages(managerConfigs) /\ page # currentPage
  /\ currentPage' = page
  /\ UNCHANGED <<managerConfigs, keyConfigs, selectedConfig, isDialogOpen, editingConfig,
                 newConfigName, saves,
                 calls, notice, popupVars, codecVars, cipherVars, textVars, editorVars, besidesManager>>

(***************************************************************************)
(* PopUp: the detectType effect and the steps of detectContentType         *)
(***************************************************************************)
\* detectContentType returns t: "setContentType(type)"; its locals are gone
Return(t) ==
  /\ tag' = t
  /\ contentType' = t
  /\ raised' = raised
  /\ pc' = "done"
  /\ configs' = <<>>
  /\ cfgIdx' = 0

\* an error leaves detectContentType: the promise rejects, nothing is set
Raise ==
  /\ raised' = TRUE
  /\ pc' = "done"
  /\ configs' = <<>>
  /\ cfgIdx' = 0
  /\ UNCHANGED <<tag, contentType>>

\* the call goes on to position p
Goto(p) ==
  /\ pc' = p
  /\ UNCHANGED <<tag, contentType, raised, configs, cfgIdx>>

\* useEffect on [content]: "if (!content || content.trim() === '')
\*   { setContentType('encode'); return; } const type = await detectContentType(content)"
ContentChange(c) ==
  /\ pc \in {"idle", "done"}
  /\ content' = c
  /\ evalText' = c
  /\ configs' = <<>>
  /\ cfgIdx' = 0
  /\ sawProfiles' = FALSE
  /\ readFailed' = FALSE
  /\ trials' = <<>>
  /\ analysed' = {}
  /\ thrown' = {}
  /\ yielded' = {}
  /\ accepted' = {}
  /\ tag' = None
  /\ raised' = FALSE
  /\ IF c = <<>> \/ Trim(c) = <<>>
     THEN contentType' = "encode" /\ pc' = "done"
     ELSE contentType' = contentType /\ pc' = "begin"
  /\ UNCHANGED <<store, codecVars, cipherVars, textVars, editorVars, pageVars>>

\* the options page adds a profile; from the sweep's read on the call works
\* on its own copy of the list
AddProfile(p) ==
  /\ pc \notin {"sweepLoop", "tail"}
  /\ Len(store) < MaxProfiles
  /\ store' = Append(store, p)
  /\ UNCHANGED <<content, contentType, callVars, codecVars, cipherVars, textVars, editorVars, pageVars>>

\* the options page deletes the i-th profile: "if (configs.length <= 1) return"
DeleteProfile(i) ==
  /\ pc \notin {"sweepLoop", "tail"}
  /\ Len(store) > 1
  /\ i <= Len(store)
  /\ store' = SubSeq(store, 1, i - 1) \o SubSeq(store, i + 1, Len(store))
  /\ UNCHANGED <<content, contentType, callVars, codecVars, cipherVars, textVars, editorVars, pageVars>>

\* a detectContentType that starts with the sweep
BeginSweepFirst ==
  /\ pc = "begin"
  /\ Goto("sweepRead")
  /\ UNCHANGED <<content, store, evalText, sawProfiles, readFailed, trials, analysed, thrown, yielded, accepted,
                 codecVars, cipherVars, textVars, editorVars, pageVars>>

\* detectContentType up to "await isLikelyRSACipher(...)"
Begin ==
  /\ pc = "begin"
  /\ LET Continue(t) == IF t # None THEN Return(t) ELSE Goto("rsa")
     IN  Continue(StructuralRules(Trim(evalText)))
  /\ UNCHANGED <<content, store, evalText, sawProfiles, readFailed, trials, analysed, thrown, yielded, accepted,
                 codecVars, cipherVars, textVars, editorVars, pageVars>>

\* "if (await isLikelyRSACipher(trimmedContent)) return 'encrypted'", then the
\* guard of the sweep
RsaCheck(fails) ==
  /\ pc = "rsa"
  /\ fails => RSAShapeOk(Trim(evalText))
  /\ sawProfiles' = (RSAShapeOk(Trim(evalText)) /\ ~fails /\ store # <<>>)
  /\ readFailed' = fails
  /\ IF isLikelyRSACipher(Trim(evalText), [fails |-> fails, keyConfigs |-> store])
     THEN Return("encrypted")
     ELSE Goto(IF SweepGuard(Trim(evalText)) THEN "sweepRead" ELSE "tail")
  /\ UNCHANGED <<content, store, evalText, trials, analysed, thrown, yielded, accepted, codecVars, cipherVars, textVars, editorVars, pageVars>>

\* "const result = await StorageUtils.getItem('keyConfigs');
\*  const configs = result.keyConfigs || []; if (configs.length > 0) ..."
SweepRead(fails) ==
  /\ pc = "sweepRead"
  /\ readFailed' = (readFailed \/ fails)
  /\ LET Continue(read) ==
           IF ~read.ok
           THEN Raise /\ UNCHANGED sawProfiles
           ELSE /\ sawProfiles' = (sawProfiles \/ read.v # <<>>)
                /\ configs' = read.v
                /\ cfgIdx' = IF Len(read.v) > 0 THEN 1 ELSE 0
                /\ pc' = IF Len(read.v) > 0 THEN "sweepLoop" ELSE "tail"
                /\ UNCHANGED <<tag, contentType, raised>>
     IN  Continue(OuterCatch(StorageGet([fails |-> fails, keyConfigs |-> store])))
  /\ UNCHANGED <<content, store, evalText, trials, analysed, thrown, yielded, accepted, codecVars, cipherVars, textVars, editorVars, pageVars>>

\* a loop that stays at the profile it just tried
NextProfileSame(i) ==
  i

\* "for (const config of configs)": the iterator moves to the next entry
NextProfile(i) ==
  i + 1

\* one iteration of "for (const config of configs)"
SweepTry ==
  /\ pc = "sweepLoop"
  /\ LET Continue(body) ==
           /\ trials' = Append(trials, cfgIdx)
           /\ analysed' = IF body.analysed THEN analysed \cup {cfgIdx} ELSE analysed
           /\ thrown' = IF body.threw THEN thrown \cup {cfgIdx} ELSE thrown
           /\ yielded' = IF body.yielded THEN yielded \cup {cfgIdx} ELSE yielded
           /\ IF ~body.outcome.ok
              THEN Raise /\ UNCHANGED accepted
              ELSE IF body.outcome.v = "encrypted"
              THEN Return("encrypted") /\ accepted' = {configs[cfgIdx]}
              ELSE /\ cfgIdx' = NextProfile(cfgIdx)
                   /\ configs' = configs
                   /\ pc' = IF cfgIdx < Len(configs) THEN "sweepLoop" ELSE "tail"
                   /\ UNCHANGED <<tag, contentType, raised, accepted>>
     IN  Continue(SweepBody(Trim(evalText), configs[cfgIdx]))
  /\ UNCHANGED <<content, store, evalText, sawProfiles, readFailed, codecVars, cipherVars, textVars, editorVars, pageVars>>

\* the rules after the sweep and the default
FallThrough ==
  /\ pc = "tail"
  /\ Return(TailRules(Trim(evalText)))
  /\ UNCHANGED <<content, store, evalText, sawProfiles, readFailed, trials, analysed, thrown, yielded, accepted,
                 codecVars, cipherVars, textVars, editorVars, pageVars>>

\* renderToolComponent once the translations are ready: the tool rendered for
\* the content and the detected type
renderToolComponent(c, type) ==
  IF c = <<>> \/ Trim(c) = <<>> THEN "IpTool"
  ELSE CASE type \in {"ip", "ipv6", "cidr", "ipv6cidr"} -> "IpTool"
         [] type = "domain" -> "DnsTool"
         [] type = "cron" -> "CroneTool"
         [] type \in {"timestamp", "datetime"} -> "TimeTool"
         [] type = "json" -> "JsonTool"
         [] type = "url" -> "UrlTool"
         [] type = "encrypted" -> "AutoCipherTool"
         [] OTHER -> "EncodeTool"

(***************************************************************************)
(* EncodingUtils: a payload is encoded under a chain and decoded again     *)
(***************************************************************************)
\* EncodingUtils.encode(payload, chain)
Encode ==
  /\ encoded' = EncodingUtils_encode(payload, chain)
  /\ decoded' = Pending
  /\ UNCHANGED <<payload, chain, popupVars, cipherVars, textVars, editorVars, pageVars>>

\* EncodingUtils.decode(encoded, chain)
Decode ==
  /\ encoded.ok
  /\ decoded' = EncodingUtils_decode(encoded.v, chain)
  /\ UNCHANGED <<payload, chain, encoded, popupVars, cipherVars, textVars, editorVars, pageVars>>

(***************************************************************************)
(* CipherTest: the full test of the cipher test panel                      *)
(***************************************************************************)
supportedModes == {"CBC", "ECB", "CFB", "OFB", "CTR"}

\* "config.mode || config.algorithm?.split('/')[1] || 'CBC'"
FullTestMode(config) ==
  IF config.mode # Undefined /\ config.mode # "" THEN config.mode
  ELSE IF Len(config.algorithm) >= 2 /\ config.algorithm[2] # "" THEN config.algorithm[2]
  ELSE "CBC"

\* adaptConfigForCipher: missing key fields get an empty value
adaptConfigForCipher(config) ==
  LET Filled(field, encoding) == IF field.present THEN field ELSE KeyMaterial(<<>>, encoding)
  IN  IF (config.algorithm # <<>> /\ config.algorithm[1] = "RSA") \/ config.algorithmType = "RSA"
      THEN [config EXCEPT !.publicKey = Filled(@, <<"UTF8">>), !.privateKey = Filled(@, <<"UTF8">>)]
      ELSE [config EXCEPT !.key = Filled(@, <<"HEX">>), !.iv = Filled(@, <<"UTF8">>)]

\* handleFullTest: encrypt, decrypt, compare after normalizeString; rnd is the
\* randomness of the RSA padding
HandleFullTest(rnd) ==
  /\ LET Failed ==
           toast' = "test_failed" /\ encryptResult' = <<>> /\ decryptResult' = <<>>
         Compared(encrypted, decrypted) ==
           IF ~decrypted.ok THEN Failed
           ELSE /\ encryptResult' = encrypted
                /\ decryptResult' = decrypted.v
                /\ toast' = IF normalizeString(decrypted.v) = normalizeString(testText)
                            THEN "full_test_pass" ELSE "full_test_mismatch"
         Encrypted(adaptedConfig, encrypted) ==
           IF ~encrypted.ok THEN Failed
           ELSE Compared(encrypted.v, CipherUtils_decrypt(encrypted.v, adaptedConfig))
         Run(adaptedConfig) ==
           Encrypted(adaptedConfig, CipherUtils_encrypt(testText, adaptedConfig, rnd))
         Checked(config) ==
           IF Trim(testText) = <<>>
           THEN toast' = "enter_test_text" /\ UNCHANGED <<encryptResult, decryptResult>>
           ELSE IF ToUpperCase(FullTestMode(config)) \notin supportedModes THEN Failed
           ELSE Run(adaptConfigForCipher(config))
     IN  IF testConfig = {}
         THEN toast' = "select_valid_config" /\ UNCHANGED <<encryptResult, decryptResult>>
         ELSE Checked(CHOOSE config \in testConfig : TRUE)
  /\ UNCHANGED <<testText, testConfig, popupVars, codecVars, textVars, editorVars, pageVars>>

\* handleEncrypt: the encryption test alone
HandleEncrypt(rnd) ==
  /\ LET Failed ==
           toast' = "encrypt_failed" /\ encryptResult' = <<>>
         Encrypted(result) ==
           IF ~result.ok THEN Failed
           ELSE encryptResult' = result.v /\ toast' = "encrypt_success"
         Checked(config) ==
           IF Trim(testText) = <<>>
           THEN toast' = "enter_test_text" /\ UNCHANGED encryptResult
           ELSE IF ToUpperCase(FullTestMode(config)) \notin supportedModes THEN Failed
           ELSE Encrypted(CipherUtils_encrypt(testText, adaptConfigForCipher(config), rnd))
     IN  IF testConfig = {}
         THEN toast' = "select_valid_config" /\ UNCHANGED encryptResult
         ELSE Checked(CHOOSE config \in testConfig : TRUE)
  /\ UNCHANGED <<testText, testConfig, decryptResult, popupVars, codecVars, textVars, editorVars, pageVars>>

\* handleDecrypt: the decryption test alone, on the ciphertext shown
HandleDecrypt ==
  /\ LET Failed ==
           toast' = "decrypt_failed" /\ decryptResult' = <<>>
         Decrypted(result) ==
           IF ~result.ok THEN Failed
           ELSE /\ decryptResult' = result.v
                /\ toast' = IF normalizeString(result.v) = normalizeString(testText)
                            THEN "decrypt_success_match" ELSE "decrypt_success_mismatch"
         Checked(config) ==
           IF Trim(encryptResult) = <<>>
           THEN toast' = "execute_encrypt_first" /\ UNCHANGED decryptResult
           ELSE IF ToUpperCase(FullTestMode(config)) \notin supportedModes THEN Failed
           ELSE Decrypted(CipherUtils_decrypt(encryptResult, adaptConfigForCipher(config)))
     IN  IF testConfig = {}
         THEN toast' = "select_valid_config" /\ UNCHANGED decryptResult
         ELSE Checked(CHOOSE config \in testConfig : TRUE)
  /\ UNCHANGED <<testText, testConfig, encryptResult, popupVars, codecVars, textVars, editorVars, pageVars>>

(***************************************************************************)
(* Inputs of the popup                                                     *)
(***************************************************************************)
K1 == Str(<<"0", "1", "2", "3", "4", "5", "6", "7", "8", "9", "a", "b", "c", "d", "e", "f">>)
IV1 == Str(<<"a", "b", "c", "d", "e", "f", "g", "h", "i", "j", "k", "l", "m", "n", "o", "p">>)
NoKey == KeyMaterial(<<>>, <<"UTF8">>)

\* a symmetric profile as the editor writes it (ConfigManager.updateAlgorithmConfig)
Symmetric(alg, mode, padding, keyText, cipherEncoding) ==
  Profile(alg, IF padding = "" THEN <<alg, mode>> ELSE <<alg, mode, padding>>, alg, mode, padding,
          KeyMaterial(keyText, <<"UTF8">>), KeyMaterial(IV1, <<"UTF8">>), NoKey, NoKey,
          <<"UTF8">>, cipherEncoding)

\* an RSA profile as the editor writes it
Asymmetric(pair, cipherEncoding) ==
  Profile("RSA", <<"RSA">>, "RSA", "", "", NoKey, NoKey,
          KeyMaterial(RsaPublicKey(pair), <<"UTF8">>), KeyMaterial(RsaPrivateKey(pair), <<"UTF8">>),
          <<"UTF8">>, cipherEncoding)

cfgCBC == Symmetric("AES", "CBC", "PKCS5Padding", K1, <<"BASE64">>)
cfgOFB == Symmetric("AES", "OFB", "PKCS5Padding", K1, <<"BASE64">>)
cfgCFB == Symmetric("AES", "CFB", "PKCS5Padding", K1, <<"BASE64">>)
cfgRSA == Asymmetric(1, <<"BASE64">>)

\* malformed entries: a profile without key and algorithm, and a null entry
cfgBroken == [cfgCBC EXCEPT !.algorithm = <<>>, !.key = NoKeyMaterial]
cfgNull == [cfgCBC EXCEPT !.isNull = TRUE]

PopupProfiles == {cfgCBC, cfgOFB, cfgCFB, cfgRSA, cfgBroken, cfgNull}

\* the sequences over S of length at most n
RECURSIVE SeqsUpTo(_, _)
SeqsUpTo(S, n) ==
  IF n = 0 THEN {<<>>}
  ELSE LET shorter == SeqsUpTo(S, n - 1)
       IN  shorter \cup {Append(q, x) : q \in shorter, x \in S}

Stores ==
  SeqsUpTo(PopupProfiles, MaxProfiles)

\* n copies of a character
Repeat(c, n) ==
  [i \in 1..n |-> Ord[c]]

helloWorld == Str(<<"h", "e", "l", "l", "o", " ", "w", "o", "r", "l", "d">>)

\* sixteen control characters: text that is valid UTF-8 and not readable
Noise == <<1, 2, 3, 4, 5, 6, 7, 8, 14, 15, 16, 17, 18, 19, 20, 21>>

BlankTexts ==
  {<<>>, <<9, LF>>, [i \in 1..12 |-> 32]}

ExampleCom == Str(<<"e", "x", "a", "m", "p", "l", "e", ".", "c", "o", "m">>)
Quad == Str(<<"1", "9", "2", ".", "1", "6", "8", ".", "1", ".", "0">>)
V6 == Str(<<"2", "0", "0", "1", ":", "d", "b", "8", ":", ":">>)

StructuredTexts ==
  { Quad,
    V6,
    Quad \o Str(<<"/", "2", "4">>),
    Quad \o Str(<<"/", "0">>),
    Str(<<"f", "e", "8", "0", ":", "1", "/", "6", "4">>),
    V6 \o Str(<<"/", "3", "2">>),
    Str(<<"0", " ", "0", " ", "*", " ", "*", " ", "*">>),
    Repeat("1", 10),
    <<32>> \o Str(<<"1", "7", "0", "0", "0", "0", "0", "0", "0", "0", "0", "0", "0">>) \o <<LF>>,
    Str(<<"2", "0", "2", "4", "-", "0", "1", "-", "0", "1", " ", "1", "0", ":", "0", "0", ":", "0", "0">>) }

UnstructuredTexts ==
  { Str(<<"h", "t", "t", "p", ":", "/", "/">>) \o ExampleCom,
    Str(<<"%", "6", "8", "t", "t", "p", "%", "3", "A", "%", "2", "F", "%", "2", "F", "a", ".", "i", "o">>),
    Str(<<"1", "0", "0", "%", "2", "5", " ", "%", "Z", "Z">>),
    ExampleCom,
    Str(<<"a", ".", "i", "o">>),
    Base64Stringify(helloWorld),
    helloWorld \o Str(<<"!", "!">>),
    Repeat("1", 11),
    Repeat("A", 64),
    Repeat("A", 104) }

\* contents made by encrypting under a profile of the pool
CipherTexts ==
  { CipherUtils_encrypt(helloWorld, cfgCBC, 0).v,
    CipherUtils_encrypt(helloWorld, cfgCFB, 0).v,
    CipherUtils_encrypt(Noise, cfgCFB, 0).v,
    CipherUtils_encrypt(Noise, cfgOFB, 0).v,
    CipherUtils_encrypt(helloWorld, cfgRSA, 3).v }

\* a JSON object and, after a blank, a JSON array
JsonTexts ==
  { Str(<<"{", "\"", "a", "\"", ":", "1", "}">>),
    <<32>> \o Str(<<"[", "1", ",", "2", "]">>) }

Texts ==
  BlankTexts \cup StructuredTexts \cup UnstructuredTexts \cup CipherTexts \cup JsonTexts

(***************************************************************************)
(* Specification of the popup                                              *)
(***************************************************************************)
PopupContentChange ==
  \E c \in Texts : ContentChange(c)

PopupAddProfile ==
  \E p \in PopupProfiles : AddProfile(p)

PopupDeleteProfile ==
  \E i \in 1..MaxProfiles : DeleteProfile(i)

PopupRsaCheck ==
  \E fails \in BOOLEAN : RsaCheck(fails)

PopupSweepRead ==
  \E fails \in BOOLEAN : SweepRead(fails)

Init ==
  PopupInit(Stores) /\ CodecIdle /\ CipherIdle /\ EditorIdle /\ PageIdle /\ TextIdle

Next ==
  \/ PopupContentChange
  \/ PopupAddProfile
  \/ PopupDeleteProfile
  \/ Begin
  \/ PopupRsaCheck
  \/ PopupSweepRead
  \/ SweepTry
  \/ FallThrough

Spec ==
  Init /\ [][Next]_vars

(***************************************************************************)
(* Specification of the codec                                              *)
(***************************************************************************)
\* the longest encoding chain considered
MaxChain == 2

\* the encodings EncodingUtils knows
ENCODINGS == {"UTF8", "HEX", "BASE64", "BASE64_URLSAFE"}

Chains ==
  SeqsUpTo(ENCODINGS, MaxChain) \ {<<>>}

abc == Str(<<"a", "b", "c">>)

\* text payloads and byte payloads (WordArrays)
Payloads ==
  { StrV(<<>>), StrV(Str(<<"a">>)), StrV(abc), StrV(helloWorld), StrV(<<233>>),
    StrV(Str(<<"6", "1", "6", "2">>)), WaV(<<97, 98, 99>>), WaV(<<255, 0>>) }

InitCodec ==
  /\ PopupInit({<<>>})
  /\ payload \in Payloads
  /\ chain \in Chains
  /\ encoded = Pending
  /\ decoded = Pending
  /\ CipherIdle
  /\ TextIdle
  /\ EditorIdle /\ PageIdle

NextCodec ==
  Encode \/ Decode

SpecCodec ==
  InitCodec /\ [][NextCodec]_vars

(***************************************************************************)
(* Specification of decoding received text                                 *)
(***************************************************************************)
\* texts handed to EncodingUtils.decode: well-formed hex and base64, odd
\* length, characters outside the alphabets, misplaced padding
DecodeInputs ==
  { Str(<<"6", "1", "6", "2">>), Str(<<"Y", "W", "J", "j">>), Str(<<"Y", "Q", "=", "=">>),
    abc, Str(<<"x", "y", "z">>), Str(<<"6", "1", "6">>), Str(<<"!", "!", "!", "!">>),
    Str(<<"Y", "=", "W", "J">>), Str(<<"Y", "W", "J", "j", "Y">>), Str(<<"a", "-", "_", "b">>) }

InitDecode ==
  /\ PopupInit({<<>>})
  /\ payload = StrV(<<>>)
  /\ chain \in Chains
  /\ encoded \in {Ok(d) : d \in DecodeInputs}
  /\ decoded = Pending
  /\ CipherIdle
  /\ TextIdle
  /\ EditorIdle /\ PageIdle

NextDecode ==
  Decode

SpecDecode ==
  InitDecode /\ [][NextDecode]_vars

(***************************************************************************)
(* Specification of the cipher test panel                                  *)
(***************************************************************************)
\* the longest ciphertext encoding chain considered
MaxCipherChain == 2

CIPHERTEXT_ENCODING_OPTIONS == {"BASE64", "HEX", "BASE64_URLSAFE"}

\* addCipherEncoding adds an encoding the chain does not hold yet
CipherChains ==
  {q \in SeqsUpTo(CIPHERTEXT_ENCODING_OPTIONS, MaxCipherChain) :
     \A i, j \in 1..Len(q) : i # j => q[i] # q[j]}

\* the profiles the editor writes: the padding of the new profile stays when
\* another mode is selected
EditorProfiles ==
  {Symmetric(alg, m, PADDINGS[1], K1, q) :
     alg \in {"AES", "SM4"}, m \in MODES, q \in CipherChains}
  \cup {Asymmetric(1, q) : q \in CipherChains}

TestTexts ==
  { Str(<<"a">>), abc, helloWorld, K1, <<32>> \o abc \o <<CR, LF>>,
    Str(<<"a">>) \o <<CR, LF>> \o Str(<<"b">>), <<233>>, <<32, 32>> }

RsaRandom == {0, 3}

InitCipher ==
  /\ PopupInit({<<>>})
  /\ CodecIdle
  /\ testText \in TestTexts
  /\ testConfig \in {{}} \cup {{c} : c \in EditorProfiles}
  /\ encryptResult = <<>>
  /\ decryptResult = <<>>
  /\ toast = "none"
  /\ TextIdle
  /\ EditorIdle /\ PageIdle

NextCipher ==
  \E rnd \in RsaRandom : HandleFullTest(rnd)

SpecCipher ==
  InitCipher /\ [][NextCipher]_vars

(***************************************************************************)
(* Specification of the encryption test over profiles with and without     *)
(* key material                                                            *)
(***************************************************************************)
\* a stored profile whose key field (public key for RSA) is missing
WithoutKey(config) ==
  IF config.algorithmType = "RSA" THEN [config EXCEPT !.publicKey = NoKeyMaterial]
  ELSE [config EXCEPT !.key = NoKeyMaterial]

\* profiles with a key, with an empty key and without the key field
KeyProfiles ==
  LET keyed == {Symmetric(alg, m, PADDINGS[1], k, <<"BASE64">>) :
                  alg \in {"AES", "SM4"}, m \in MODES, k \in {K1, <<>>}}
               \cup {Asymmetric(1, <<"BASE64">>),
                     [Asymmetric(1, <<"BASE64">>) EXCEPT !.publicKey = NoKey]}
  IN  keyed \cup {WithoutKey(c) : c \in keyed}

InitEncrypt ==
  /\ PopupInit({<<>>})
  /\ CodecIdle
  /\ testText \in TestTexts
  /\ testConfig \in {{}} \cup {{c} : c \in KeyProfiles}
  /\ encryptResult = <<>>
  /\ decryptResult = <<>>
  /\ toast = "none"
  /\ TextIdle
  /\ EditorIdle /\ PageIdle

NextEncrypt ==
  \E rnd \in RsaRandom : HandleEncrypt(rnd)

SpecEncrypt ==
  InitEncrypt /\ [][NextEncrypt]_vars

(***************************************************************************)
(* Specification of the text analysis                                      *)
(***************************************************************************)
\* the longest analysed text
MaxTextLen == 3

\* code units: a control character, DEL, a letter, a Latin-1 letter, a CJK
\* ideograph
AnalysedUnits == {1, 127, 97, 233, 20013}

\* values that are no strings: undefined, a number, a WordArray
NonStrings ==
  {[t |-> "undefined", v |-> <<>>], [t |-> "number", v |-> <<>>], WaV(<<97, 98>>)}

\* analyzePrintableCharacters(text) and isTextReadable(text) with the default
\* threshold 0.5
Analyze ==
  /\ analysis = {}
  /\ analysis' = {analyzePrintableCharactersOf(text)}
  /\ readable' = {isTextReadableOf(text, 1, 2)}
  /\ UNCHANGED <<text, popupVars, codecVars, cipherVars, editorVars, pageVars>>

InitText ==
  /\ PopupInit({<<>>})
  /\ CodecIdle
  /\ CipherIdle
  /\ text \in {StrV(q) : q \in SeqsUpTo(AnalysedUnits, MaxTextLen)} \cup NonStrings
  /\ analysis = {}
  /\ readable = {}
  /\ EditorIdle /\ PageIdle

NextText ==
  Analyze

SpecText ==
  InitText /\ [][NextText]_vars

(***************************************************************************)
(* Specification of the decryption test on ciphertexts made elsewhere:     *)
(* messages with zero bytes, encrypted under the profile's key with the    *)
(* padding the profile's mode calls for                                    *)
(***************************************************************************)
\* the longest message considered
MaxMessageLen == 3

\* messages of letters and NUL characters
Messages ==
  SeqsUpTo({Ord["a"], 0}, MaxMessageLen)

\* the AES profile of a mode as the editor writes it
AesProfile(m) ==
  Symmetric("AES", m, PADDINGS[1], K1, <<"BASE64">>)

\* the Base64 ciphertext of a message under the key and IV of the profiles:
\* Pkcs7 for CBC and ECB, no padding for CFB, OFB and CTR
ForeignCiphertext(m, message) ==
  CryptoJS_AES_encrypt(message, Utf8Parse(K1), Utf8Parse(IV1),
                       [mode |-> m,
                        padding |-> IF m \in NEED_PADDING_MODES THEN "Pkcs7" ELSE "NoPadding",
                        iv |-> m # "ECB"])

InitDecrypt ==
  /\ PopupInit({<<>>})
  /\ CodecIdle
  /\ TextIdle
  /\ \E m \in MODES, message \in Messages :
       /\ testText = message
       /\ testConfig = {AesProfile(m)}
       /\ encryptResult = ForeignCiphertext(m, message)
  /\ decryptResult = <<>>
  /\ toast = "none"
  /\ EditorIdle /\ PageIdle

NextDecrypt ==
  HandleDecrypt

SpecDecrypt ==
  InitDecrypt /\ [][NextDecrypt]_vars

(***************************************************************************)
(* Specification of the algorithm editor                                   *)
(***************************************************************************)
InitEditor ==
  /\ PopupInit({<<>>})
  /\ CodecIdle
  /\ CipherIdle
  /\ TextIdle
  /\ EditorIdle /\ PageIdle

EditorSelectAlgorithm ==
  \E v \in ALGORITHMS : SelectAlgorithm(v)

EditorSelectModel ==
  \E v \in MODES : SelectModel(v)

EditorSelectPadding ==
  \E i \in 1..Len(PADDINGS) : SelectPadding(PADDINGS[i])

NextEditor ==
  \/ Render
  \/ EditorSelectAlgorithm
  \/ EditorSelectModel
  \/ EditorSelectPadding
  \/ Reopen

SpecEditor ==
  InitEditor /\ [][NextEditor]_vars

(***************************************************************************)
(* PopUp with overlapping detectContentType calls.  The effect on          *)
(* [content] starts a call for every change and never cancels one; a call  *)
(* runs on until it awaits a storage read, the storage answers the reads   *)
(* in the order they were issued.                                          *)
(***************************************************************************)
\* content changes considered
MaxChanges == 3

\* the sweep over the list that was read: 'encrypted' or nothing
RECURSIVE SweepAll(_, _, _)
SweepAll(trimmedContent, list, i) ==
  IF i > Len(list) THEN None
  ELSE IF SweepBody(trimmedContent, list[i]).outcome.v = "encrypted" THEN "encrypted"
  ELSE SweepAll(trimmedContent, list, i + 1)

\* a storage read of call n, awaited by isLikelyRSACipher or by the sweep
Read(n, callText, stage) ==
  [n |-> n, text |-> callText, stage |-> stage]

\* "setContentType(type)" of call n; tag follows the call of the current content
SetContentType(n, latest, type) ==
  /\ contentType' = type
  /\ tag' = IF n = latest THEN type ELSE tag

\* call n after isLikelyRSACipher returned false: the sweep's read, or the
\* rules after the sweep
AfterRsaCheck(n, latest, callText, waiting) ==
  IF SweepGuard(Trim(callText))
  THEN /\ inflight' = Append(waiting, Read(n, callText, "sweep"))
       /\ UNCHANGED contentType
       /\ tag' = IF n = latest THEN None ELSE tag
  ELSE /\ inflight' = waiting
       /\ SetContentType(n, latest, TailRules(Trim(callText)))

\* useEffect on [content]: the call for the new content runs up to its first
\* storage read
RaceContentChange(c) ==
  /\ changes < MaxChanges
  /\ content' = c
  /\ changes' = changes + 1
  /\ IF c = <<>> \/ Trim(c) = <<>>
     THEN inflight' = inflight /\ SetContentType(changes + 1, changes + 1, "encode")
     ELSE IF StructuralRules(Trim(c)) # None
     THEN inflight' = inflight /\ SetContentType(changes + 1, changes + 1, StructuralRules(Trim(c)))
     ELSE IF RSAShapeOk(c)
     THEN /\ inflight' = Append(inflight, Read(changes + 1, c, "rsa"))
          /\ tag' = None
          /\ UNCHANGED contentType
     ELSE AfterRsaCheck(changes + 1, changes + 1, c, inflight)
  /\ UNCHANGED <<store, pc, evalText, configs, cfgIdx, sawProfiles, readFailed, trials, analysed,
                 thrown, yielded, accepted, raised,
                 codecVars, cipherVars, textVars, editorVars, besidesRace>>

\* the storage answers the oldest read and the call that awaited it runs on
Answer(fails) ==
  /\ inflight # <<>>
  /\ LET r == Head(inflight)
         read == [fails |-> fails, keyConfigs |-> store]
     IN  IF r.stage = "rsa"
         THEN IF isLikelyRSACipher(Trim(r.text), read)
              THEN inflight' = Tail(inflight) /\ SetContentType(r.n, changes, "encrypted")
              ELSE AfterRsaCheck(r.n, changes, r.text, Tail(inflight))
         ELSE /\ inflight' = Tail(inflight)
              /\ IF SweepAll(Trim(r.text), OuterCatch(StorageGet(read)).v, 1) = "encrypted"
                 THEN SetContentType(r.n, changes, "encrypted")
                 ELSE SetContentType(r.n, changes, TailRules(Trim(r.text)))
  /\ UNCHANGED <<content, store, changes, pc, evalText, configs, cfgIdx, sawProfiles, readFailed,
                 trials, analysed, thrown, yielded, accepted, raised,
                 codecVars, cipherVars, textVars, editorVars, besidesRace>>

(***************************************************************************)
(* Specification of the key-configuration manager                          *)
(***************************************************************************)
Named(name, config) ==
  [config EXCEPT !.name = Str(name)]

\* stored lists of profiles with distinct names and with their keys
ManagerStores ==
  { <<Named(<<"a">>, cfgCBC)>>,
    <<Named(<<"a">>, cfgCBC), Named(<<"b">>, cfgRSA)>> }

\* texts typed into the name input of the create form
NewNames ==
  {<<32>>, Str(<<"a">>), <<32>> \o Str(<<"c">>)}

\* the profiles the editor can hand to handleSave for the profile it was given
EditedProfiles(config) ==
  { [config EXCEPT !.name = Str(<<"b">>)],
    [config EXCEPT !.name = Str(<<"d">>)],
    [config EXCEPT !.name = <<32>>],
    [config EXCEPT !.key = KeyMaterial(<<32>>, <<"UTF8">>), !.publicKey = KeyMaterial(<<>>, <<"UTF8">>)],
    [config EXCEPT !.key = KeyMaterial(IV1, <<"UTF8">>)] }

\* the manager after loadConfigsFromStorage and the effects of the first renders
ManagerLoaded(list) ==
  /\ managerConfigs = list
  /\ keyConfigs = list
  /\ selectedConfig = list[1].name
  /\ isDialogOpen = FALSE
  /\ editingConfig = {}
  /\ newConfigName = <<>>
  /\ currentPage = 1
  /\ saves = <<>>
  /\ calls = 0
  /\ notice = Toast("none", {})

InitManager ==
  /\ PopupInit({<<>>})
  /\ CodecIdle
  /\ CipherIdle
  /\ TextIdle
  /\ EditorIdle
  /\ \E list \in ManagerStores : ManagerLoaded(list)
  /\ RaceIdle
  /\ RestIdle

ManagerNames ==
  {Str(<<"a">>), Str(<<"b">>), Str(<<"c">>), Str(<<"d">>), Str(<<"e">>), Str(<<"f">>)}

ManagerSetNewConfigName ==
  \E name \in NewNames : SetNewConfigName(name)

ManagerEditConfig ==
  \E name \in ManagerNames : EditConfig(name)

ManagerHandleSave ==
  \E config \in editingConfig : \E updatedConfig \in EditedProfiles(config) : HandleSave(updatedConfig)

ManagerDeleteConfig ==
  \E name \in ManagerNames, confirmed \in BOOLEAN : DeleteConfig(name, confirmed)

ManagerResume ==
  \E i \in 1..MaxCalls, rejected \in BOOLEAN : Resume(i, rejected)

ManagerPageChange ==
  \E page \in 1..MaxPage : PageChange(page)

NextManager ==
  \/ OpenNew
  \/ ManagerSetNewConfigName
  \/ CloseDialog
  \/ AddConfig
  \/ ManagerEditConfig
  \/ ManagerHandleSave
  \/ ManagerDeleteConfig
  \/ ManagerResume

SpecManager ==
  InitManager /\ [][NextManager]_vars

(***************************************************************************)
(* Specification of the pagination of the manager                          *)
(***************************************************************************)
\* a stored list that fills more than one page
SixProfiles ==
  << Named(<<"a">>, cfgCBC), Named(<<"b">>, cfgRSA), Named(<<"c">>, cfgCBC),
     Named(<<"d">>, cfgCBC), Named(<<"e">>, cfgCBC), Named(<<"f">>, cfgCBC) >>

InitPages ==
  /\ PopupInit({<<>>})
  /\ CodecIdle
  /\ CipherIdle
  /\ TextIdle
  /\ EditorIdle
  /\ ManagerLoaded(SixProfiles)
  /\ RaceIdle
  /\ RestIdle

NextPages ==
  \/ ManagerPageChange
  \/ OpenNew
  \/ ManagerSetNewConfigName
  \/ CloseDialog
  \/ AddConfig
  \/ ManagerDeleteConfig
  \/ ManagerResume

SpecPages ==
  InitPages /\ [][NextPages]_vars

(***************************************************************************)
(* Specification of the popup with overlapping calls                       *)
(***************************************************************************)
RaceTexts ==
  { <<>>,
    Quad,
    Str(<<"a", ".", "i", "o">>),
    Str(<<"h", "t", "t", "p", ":", "/", "/">>) \o ExampleCom,
    Repeat("A", 64),
    CipherUtils_encrypt(helloWorld, cfgCBC, 0).v }

InitRace ==
  /\ PopupInit({<<>>, <<cfgCBC>>})
  /\ CodecIdle
  /\ CipherIdle
  /\ TextIdle
  /\ EditorIdle
  /\ ManagerIdle
  /\ RestIdle
  /\ RaceIdle

RaceChange ==
  \E c \in RaceTexts : RaceContentChange(c)

RaceAnswer ==
  \E fails \in BOOLEAN : Answer(fails)

NextRace ==
  \/ RaceChange
  \/ RaceAnswer

SpecRace ==
  InitRace /\ [][NextRace]_vars

(***************************************************************************)
(* options page: OptionsManager.encryptTest and decryptTest                *)
(***************************************************************************)
\* the entries of #algorithmSelect the tests accept, split at '/'
OptionsAlgorithms ==
  { <<"RSA">>, <<"AES", "CBC", "PKCS5Padding">>, <<"AES", "ECB", "PKCS5Padding">>,
    <<"SM4", "CBC">>, <<"SM4", "ECB">> }

\* the record saved under 'encryptionKeys'
EncryptionKeys(aesKey, aesIv, publicKey, privateKey) ==
  [aesKey |-> aesKey, aesIv |-> aesIv, publicKey |-> publicKey, privateKey |-> privateKey]

\* getAESKeys: "if (!keys || !keys.aesKey) throw"; iv: keys.aesIv || ''
getAESKeys(stored) ==
  IF stored = {} THEN Thrown("no AES key")
  ELSE LET keys == CHOOSE k \in stored : TRUE
       IN  IF keys.aesKey = <<>> THEN Thrown("no AES key")
           ELSE Ok([key |-> keys.aesKey, iv |-> keys.aesIv])

\* getRSAKeys: "if (!keys || !keys.publicKey || !keys.privateKey) throw"
getRSAKeys(stored) ==
  IF stored = {} THEN Thrown("no RSA keys")
  ELSE LET keys == CHOOSE k \in stored : TRUE
       IN  IF keys.publicKey = <<>> \/ keys.privateKey = <<>> THEN Thrown("no RSA keys")
           ELSE Ok([publicKey |-> keys.publicKey, privateKey |-> keys.privateKey])

\* the profile the tests build for AES and SM4: the algorithm string, key and
\* iv, no mode and no padding field; "iv: aesKeys.iv ? {...} : undefined"
OptionsSymmetric(algorithm, aesKeys) ==
  Profile(Undefined, algorithm, Undefined, Undefined, Undefined,
          KeyMaterial(aesKeys.key, <<"UTF8">>),
          IF aesKeys.iv = <<>> THEN NoKeyMaterial ELSE KeyMaterial(aesKeys.iv, <<"UTF8">>),
          NoKeyMaterial, NoKeyMaterial, <<"UTF8">>, <<"BASE64">>)

\* the profile encryptTest builds for RSA (public key only)
OptionsRsaEncrypt(rsaKeys) ==
  Profile(Undefined, <<"RSA">>, Undefined, Undefined, Undefined, NoKeyMaterial, NoKeyMaterial,
          KeyMaterial(rsaKeys.publicKey, <<"UTF8">>), NoKeyMaterial, <<"UTF8">>, <<"BASE64">>)

\* the profile decryptTest builds for RSA (private key only)
OptionsRsaDecrypt(rsaKeys) ==
  Profile(Undefined, <<"RSA">>, Undefined, Undefined, Undefined, NoKeyMaterial, NoKeyMaterial,
          NoKeyMaterial, KeyMaterial(rsaKeys.privateKey, <<"UTF8">>), <<"UTF8">>, <<"BASE64">>)

\* the user picks an entry of #algorithmSelect
OptionsSelect(algorithm) ==
  /\ algorithm # algorithmSelect
  /\ algorithmSelect' = algorithm
  /\ UNCHANGED <<optionsText, encryptedText, decryptedText, testResult, encryptionKeys>>
  /\ UNCHANGED <<popupVars, codecVars, cipherVars, textVars, editorVars, besidesOptions>>

\* encryptTest; rnd is the randomness of the RSA padding
encryptTest(rnd) ==
  /\ LET plaintext == Trim(optionsText)
         Failed == testResult' = "encrypt_failed" /\ encryptedText' = <<>>
         Done(ciphertext) ==
           IF ~ciphertext.ok THEN Failed
           ELSE encryptedText' = ciphertext.v /\ testResult' = "encrypt_success"
         WithAes(aesKeys) ==
           IF ~aesKeys.ok THEN Failed
           ELSE Done(CipherUtils_encrypt(plaintext, OptionsSymmetric(algorithmSelect, aesKeys.v), rnd))
         WithRsa(rsaKeys) ==
           IF ~rsaKeys.ok THEN Failed
           ELSE Done(CipherUtils_encrypt(plaintext, OptionsRsaEncrypt(rsaKeys.v), rnd))
     IN  IF plaintext = <<>>
         THEN testResult' = "enter_test_text" /\ UNCHANGED encryptedText
         ELSE IF algorithmSelect = <<"RSA">> THEN WithRsa(getRSAKeys(encryptionKeys))
         ELSE IF algorithmSelect \in OptionsAlgorithms THEN WithAes(getAESKeys(encryptionKeys))
         ELSE Failed
  /\ UNCHANGED <<algorithmSelect, optionsText, decryptedText, encryptionKeys>>
  /\ UNCHANGED <<popupVars, codecVars, cipherVars, textVars, editorVars, besidesOptions>>

\* decryptTest, on the ciphertext shown
decryptTest ==
  /\ LET ciphertext == Trim(encryptedText)
         Failed == testResult' = "decrypt_failed" /\ decryptedText' = <<>>
         Done(plaintext) ==
           IF ~plaintext.ok THEN Failed
           ELSE decryptedText' = plaintext.v /\ testResult' = "decrypt_success"
         WithAes(aesKeys) ==
           IF ~aesKeys.ok THEN Failed
           ELSE Done(CipherUtils_decrypt(ciphertext, OptionsSymmetric(algorithmSelect, aesKeys.v)))
         WithRsa(rsaKeys) ==
           IF ~rsaKeys.ok THEN Failed
           ELSE Done(CipherUtils_decrypt(ciphertext, OptionsRsaDecrypt(rsaKeys.v)))
     IN  IF ciphertext = <<>>
         THEN testResult' = "enter_ciphertext" /\ UNCHANGED decryptedText
         ELSE IF algorithmSelect = <<"RSA">> THEN WithRsa(getRSAKeys(encryptionKeys))
         ELSE IF algorithmSelect \in OptionsAlgorithms THEN WithAes(getAESKeys(encryptionKeys))
         ELSE Failed
  /\ UNCHANGED <<algorithmSelect, optionsText, encryptedText, encryptionKeys>>
  /\ UNCHANGED <<popupVars, codecVars, cipherVars, textVars, editorVars, besidesOptions>>

(***************************************************************************)
(* Specification of the tests of the options page                          *)
(***************************************************************************)
StoredKeys ==
  { {}, {EncryptionKeys(K1, IV1, RsaPublicKey(1), RsaPrivateKey(1))},
    {EncryptionKeys(K1, <<>>, <<>>, <<>>)} }

InitOptions ==
  /\ PopupInit({<<>>})
  /\ CodecIdle
  /\ CipherIdle
  /\ TextIdle
  /\ EditorIdle
  /\ ManagerIdle
  /\ RaceIdle
  /\ PreloadFresh
  /\ LanguageIdle
  /\ EncodeIdle
  /\ algorithmSelect \in OptionsAlgorithms
  /\ optionsText \in TestTexts
  /\ encryptedText = <<>>
  /\ decryptedText = <<>>
  /\ testResult = "none"
  /\ encryptionKeys \in StoredKeys

OptionsSelectAlgorithm ==
  \E algorithm \in OptionsAlgorithms : OptionsSelect(algorithm)

OptionsEncryptTest ==
  \E rnd \in RsaRandom : encryptTest(rnd)

NextOptions ==
  \/ OptionsSelectAlgorithm
  \/ OptionsEncryptTest
  \/ decryptTest

SpecOptions ==
  InitOptions /\ [][NextOptions]_vars

(***************************************************************************)
(* i18n: preloadTranslations                                               *)
(***************************************************************************)
\* a call that starts a load pass whatever the flags say
PreloadEntryUnguarded(preloading, completed) ==
  IF completed THEN "return" ELSE "load"

\* the entry of preloadTranslations: "if (isPreloading) { while ... }",
\* "if (preloadCompleted) return", otherwise the load pass
PreloadEntry(preloading, completed) ==
  IF preloading THEN "wait"
  ELSE IF completed THEN "return"
  ELSE "load"

\* getTranslations(language) up to its await: the cached value when there is
\* one ({} is truthy), otherwise the import of the file is started
ImportNeeded(cache, language) ==
  cache[language] = "none"

\* what getTranslations resolves to when its import settles: the module, or
\* {} from its catch block
Imported(fails) ==
  IF fails THEN "empty" ELSE "loaded"

\* the load pass from the language at index k on, up to the next import it
\* has to wait for; cached languages are stored at once
RECURSIVE PassFrom(_, _, _)
PassFrom(i, k, cache) ==
  IF k > Len(languages)
  THEN /\ preloadedTranslations' = cache
       /\ preloadCompleted' = TRUE
       /\ isPreloading' = FALSE
       /\ callers' = [callers EXCEPT ![i] = Caller("returned", 0, @.waited)]
       /\ UNCHANGED loads
  ELSE IF ImportNeeded(cache, languages[k])
  THEN /\ preloadedTranslations' = cache
       /\ isPreloading' = TRUE
       /\ callers' = [callers EXCEPT ![i] = Caller("loading", k, @.waited)]
       /\ loads' = [loads EXCEPT ![languages[k]] = @ + 1]
       /\ UNCHANGED preloadCompleted
  ELSE PassFrom(i, k + 1, cache)

\* caller i calls preloadTranslations: the function runs to its first await
PreloadCall(i) ==
  /\ callers[i].pc = "idle"
  /\ LET entry == PreloadEntry(isPreloading, preloadCompleted)
     IN  CASE entry = "wait" ->
                /\ callers' = [callers EXCEPT ![i] = Caller("waiting", 0, TRUE)]
                /\ UNCHANGED <<isPreloading, preloadCompleted, preloadedTranslations, loads, passes>>
           [] entry = "return" ->
                /\ callers' = [callers EXCEPT ![i] = Caller("returned", 0, FALSE)]
                /\ UNCHANGED <<isPreloading, preloadCompleted, preloadedTranslations, loads, passes>>
           [] OTHER ->
                /\ passes' = passes + 1
                /\ PassFrom(i, 1, preloadedTranslations)
  /\ UNCHANGED <<popupVars, codecVars, cipherVars, textVars, editorVars, besidesPreload>>

\* the import awaited by the pass of caller i settles; the pass stores the
\* result and goes on to the next language or to its end ("finally")
ImportSettles(i, fails) ==
  /\ callers[i].pc = "loading"
  /\ PassFrom(i, callers[i].at + 1,
              [preloadedTranslations EXCEPT ![languages[callers[i].at]] = Imported(fails)])
  /\ UNCHANGED passes
  /\ UNCHANGED <<popupVars, codecVars, cipherVars, textVars, editorVars, besidesPreload>>

\* the 10 ms timer of a waiting caller fires when the pass is over: the loop
\* "while (isPreloading)" ends and the call returns
PollEnds(i) ==
  /\ callers[i].pc = "waiting"
  /\ ~isPreloading
  /\ callers' = [callers EXCEPT ![i] = Caller("returned", 0, TRUE)]
  /\ UNCHANGED <<isPreloading, preloadCompleted, preloadedTranslations, loads, passes>>
  /\ UNCHANGED <<popupVars, codecVars, cipherVars, textVars, editorVars, besidesPreload>>

(***************************************************************************)
(* Specification of concurrent calls of preloadTranslations: every import  *)
(* settles and every timer fires                                           *)
(***************************************************************************)
InitPreload ==
  /\ PopupInit({<<>>})
  /\ CodecIdle
  /\ CipherIdle
  /\ TextIdle
  /\ EditorIdle
  /\ ManagerIdle
  /\ RaceIdle
  /\ OptionsIdle
  /\ PreloadFresh
  /\ LanguageIdle
  /\ EncodeIdle

PreloadCalls ==
  \E i \in Callers : PreloadCall(i)

PreloadImports ==
  \E i \in Callers, fails \in BOOLEAN : ImportSettles(i, fails)

PreloadPolls ==
  \E i \in Callers : PollEnds(i)

NextPreload ==
  \/ PreloadCalls
  \/ PreloadImports
  \/ PreloadPolls

SpecPreload ==
  /\ InitPreload
  /\ [][NextPreload]_vars
  /\ WF_vars(PreloadImports)
  /\ WF_vars(PreloadPolls)

(***************************************************************************)
(* i18n: LanguageManager                                                   *)
(***************************************************************************)
\* the bound on the calls of switchLanguage
MaxSwitches == 3

\* initializeLanguage after its await: "if (detectedLanguage !==
\* this.currentLanguage) this.currentLanguage = detectedLanguage"
AfterDetection(detected, current) ==
  IF detected # current THEN detected ELSE current

\* switchLanguage(language) up to "await this.saveLanguage(language)";
\* saveLanguage writes localStorage at once where there is one and then
\* waits for the extension storage
SwitchLanguage(language) ==
  /\ switches < MaxSwitches
  /\ switches' = switches + 1
  /\ IF ~isSupportedLanguage(language)
     THEN UNCHANGED <<currentLanguage, storedLanguage, writes, userLanguage>>
     ELSE /\ userLanguage' = {language}
          /\ IF language # currentLanguage
             THEN /\ currentLanguage' = language
                  /\ storedLanguage' = IF hasLocalStorage THEN {language} ELSE storedLanguage
                  /\ writes' = Append(writes, language)
             ELSE UNCHANGED <<currentLanguage, storedLanguage, writes>>
  /\ UNCHANGED <<shownLanguage, isInitializing, hasLocalStorage, browserLanguage>>
  /\ UNCHANGED <<popupVars, codecVars, cipherVars, textVars, editorVars, besidesLanguage>>

\* StorageUtils.setItem of the oldest waiting switchLanguage call settles (a
\* rejection is caught in saveLanguage); the call goes on to notifyListeners
SaveSettles(rejected) ==
  /\ writes # <<>>
  /\ writes' = Tail(writes)
  /\ storedLanguage' = IF hasLocalStorage \/ rejected THEN storedLanguage ELSE {Head(writes)}
  /\ shownLanguage' = {currentLanguage}
  /\ UNCHANGED <<currentLanguage, isInitializing, hasLocalStorage, browserLanguage, userLanguage,
                 switches>>
  /\ UNCHANGED <<popupVars, codecVars, cipherVars, textVars, editorVars, besidesLanguage>>

\* the storage read of getStoredLanguage is answered (a rejection is caught
\* and gives null) and initializeLanguage runs to its end
DetectionCompletes(rejected) ==
  /\ isInitializing
  /\ LET detectedLanguage ==
           detectInitialLanguage(IF rejected THEN {} ELSE storedLanguage, browserLanguage)
         language == AfterDetection(detectedLanguage, currentLanguage)
     IN  /\ currentLanguage' = language
         /\ shownLanguage' = IF language # currentLanguage THEN {language} ELSE shownLanguage
  /\ isInitializing' = FALSE
  /\ UNCHANGED <<hasLocalStorage, browserLanguage, storedLanguage, writes, userLanguage, switches>>
  /\ UNCHANGED <<popupVars, codecVars, cipherVars, textVars, editorVars, besidesLanguage>>

(***************************************************************************)
(* Specification of the language manager: with localStorage the initial    *)
(* detection is over before the first event, without it the detection      *)
(* waits for the extension storage                                         *)
(***************************************************************************)
BrowserLanguages == {"zh", "en", "fr"}

StoredLanguages == {{}, {"zh"}, {"en"}, {"fr"}}

InitLanguage ==
  /\ PopupInit({<<>>})
  /\ CodecIdle
  /\ CipherIdle
  /\ TextIdle
  /\ EditorIdle
  /\ ManagerIdle
  /\ RaceIdle
  /\ OptionsIdle
  /\ PreloadFresh
  /\ EncodeIdle
  /\ hasLocalStorage \in BOOLEAN
  /\ browserLanguage \in BrowserLanguages
  /\ storedLanguage \in StoredLanguages
  /\ isInitializing = ~hasLocalStorage
  /\ currentLanguage = IF hasLocalStorage
                       THEN detectInitialLanguage(storedLanguage, browserLanguage)
                       ELSE DEFAULT_LANGUAGE
  /\ shownLanguage = {}
  /\ writes = <<>>
  /\ userLanguage = {}
  /\ switches = 0

LanguageSwitch ==
  \E language \in BrowserLanguages : SwitchLanguage(language)

LanguageSaved ==
  \E rejected \in BOOLEAN : SaveSettles(rejected)

LanguageDetected ==
  \E rejected \in BOOLEAN : DetectionCompletes(rejected)

NextLanguage ==
  \/ LanguageSwitch
  \/ LanguageSaved
  \/ LanguageDetected

SpecLanguage ==
  InitLanguage /\ [][NextLanguage]_vars

(***************************************************************************)
(* EncodeTool: codecs, detectFormat and processEncoding.  Strings are of   *)
(* the Basic Multilingual Plane without surrogates.                        *)
(***************************************************************************)
\* Number.prototype.toString() of a natural number
RECURSIVE ToDecimal(_)
ToDecimal(n) ==
  IF n < 10 THEN <<48 + n>> ELSE ToDecimal(n \div 10) \o <<48 + (n % 10)>>

\* parseInt(digits, 10) of a string of decimal digits
RECURSIVE ParseInt10(_)
ParseInt10(digits) ==
  IF digits = <<>> THEN 0
  ELSE 10 * ParseInt10(SubSeq(digits, 1, Len(digits) - 1)) + (digits[Len(digits)] - 48)

\* String.prototype.split(',')
RECURSIVE SplitComma(_)
SplitComma(s) ==
  LET commas == {i \in 1..Len(s) : s[i] = Ord[","]}
      first == CHOOSE i \in commas : \A j \in commas : i <= j
  IN  IF commas = {} THEN <<s>>
      ELSE <<SubSeq(s, 1, first - 1)>> \o SplitComma(SubSeq(s, first + 1, Len(s)))

\* Array.prototype.join(sep)
RECURSIVE Join(_, _)
Join(parts, sep) ==
  IF parts = <<>> THEN <<>>
  ELSE IF Len(parts) = 1 THEN parts[1]
  ELSE parts[1] \o sep \o Join(Tail(parts), sep)

\* atob: ASCII whitespace is removed, one or two trailing '=' of an input of
\* a length divisible by four are dropped, anything else outside the
\* alphabet or a remainder of one character throws
atob(str) ==
  LET NotSpace(c) == c \notin {9, 10, 12, 13, 32}
      s == SelectSeq(str, NotSpace)
      n == Len(s)
      data == IF n % 4 = 0 /\ n >= 2 /\ s[n] = Ord["="] /\ s[n - 1] = Ord["="]
              THEN SubSeq(s, 1, n - 2)
              ELSE IF n % 4 = 0 /\ n >= 1 /\ s[n] = Ord["="] THEN SubSeq(s, 1, n - 1)
              ELSE s
  IN  IF Len(data) % 4 = 1 \/ \E i \in 1..Len(data) : data[i] \notin AlNum \cup Chars(<<"+", "/">>)
      THEN Thrown("InvalidCharacterError")
      ELSE Ok(Base64Parse(data))

\* a decoder's result: the text and the byte array mark of decodeHex
Decoded(value, isByteArray) == [value |-> value, isByteArray |-> isByteArray]

\* the text of a decoder that returns a string
AsText(r) ==
  IF r.ok THEN Ok(Decoded(r.v, FALSE)) ELSE r

\* encodeBase64: btoa(unescape(encodeURIComponent(str)))
encodeBase64(str) ==
  Ok(Base64Stringify(Utf8Parse(str)))

\* decodeBase64: decodeURIComponent(escape(atob(str)))
decodeBase64(str) ==
  LET FromBinary(binary) == IF binary.ok THEN Utf8Stringify(binary.v) ELSE binary
  IN  FromBinary(atob(str))

\* encodeHex: the UTF-8 bytes, two lower-case digits each
encodeHex(str) ==
  Ok(HexStringify(Utf8Parse(str)))

\* decodeHex: the bytes decoded as UTF-8; below 70% printable characters the
\* bytes themselves (Uint8Array.prototype.map turns '0x..' back into the
\* number, so join(' ') yields the decimal values)
decodeHex(hex) ==
  LET padded == IF Len(hex) % 2 # 0 THEN <<48>> \o hex ELSE hex
      bytes == [k \in 1..(Len(padded) \div 2) |->
                  (ParseInt16(SubSeq(padded, 2 * k - 1, 2 * k)).n + 256) % 256]
      decodedText == TextDecoderDecode(bytes)
      printable == Cardinality({i \in 1..Len(decodedText) :
                                  decodedText[i] \in (32..126) \cup (19968..40959)})
  IN  IF decodedText = <<>> \/ 10 * printable < 7 * Len(decodedText)
      THEN Ok(Decoded(Join([k \in 1..Len(bytes) |-> ToDecimal(bytes[k])], <<32>>), TRUE))
      ELSE Ok(Decoded(decodedText, FALSE))

\* the characters encodeURIComponent leaves alone
UriUnreserved ==
  AlNum \cup Chars(<<"-", "_", ".", "!", "~", "*", "'", "(", ")">>)

\* encodeURIComponent: every other character as %XX of its UTF-8 bytes
encodeURIComponent(str) ==
  LET Digit16(d) == IF d < 10 THEN 48 + d ELSE 55 + d
      Escape(b) == <<Ord["%"], Digit16(b \div 16), Digit16(b % 16)>>
      Escapes(bytes) == Concat([k \in 1..Len(bytes) |-> Escape(bytes[k])], 1, Len(bytes))
  IN  Concat([i \in 1..Len(str) |->
                IF str[i] \in UriUnreserved THEN <<str[i]>> ELSE Escapes(Utf8Unit(str[i]))],
             1, Len(str))

\* encodeUrl
encodeUrl(str) ==
  Ok(encodeURIComponent(str))

\* encodeUnicode: '\u' and four lower-case hexadecimal digits per character
encodeUnicode(str) ==
  LET Hex4(c) == << HexChars[(c \div 4096) + 1], HexChars[((c \div 256) % 16) + 1],
                    HexChars[((c \div 16) % 16) + 1], HexChars[(c % 16) + 1] >>
  IN  Ok(Concat([i \in 1..Len(str) |-> <<Ord["\\"], Ord["u"]>> \o Hex4(str[i])], 1, Len(str)))

\* decodeUnicode: str.replace(/\\u([0-9a-fA-F]{4})/g, String.fromCharCode(parseInt(hex, 16)))
RECURSIVE decodeUnicode(_)
decodeUnicode(str) ==
  IF str = <<>> THEN <<>>
  ELSE IF /\ Len(str) >= 6
          /\ str[1] = Ord["\\"]
          /\ str[2] = Ord["u"]
          /\ \A i \in 3..6 : str[i] \in HexDigit
  THEN <<4096 * HexVal(str[3]) + 256 * HexVal(str[4]) + 16 * HexVal(str[5]) + HexVal(str[6])>>
       \o decodeUnicode(SubSeq(str, 7, Len(str)))
  ELSE <<str[1]>> \o decodeUnicode(Tail(str))

\* encodeAscii: the code units in decimal, joined by ','
encodeAscii(str) ==
  Ok(Join([i \in 1..Len(str) |-> ToDecimal(str[i])], <<Ord[","]>>))

\* decodeAscii: String.fromCharCode(parseInt(code, 10)) of every part
decodeAscii(asciiStr) ==
  LET parts == SplitComma(asciiStr)
  IN  [k \in 1..Len(parts) |-> ParseInt10(parts[k]) % 65536]

\* encodeUtf8Bytes: the UTF-8 bytes in decimal, joined by ','
encodeUtf8Bytes(str) ==
  LET bytes == Utf8Parse(str)
  IN  Ok(Join([k \in 1..Len(bytes) |-> ToDecimal(bytes[k])], <<Ord[","]>>))

\* decodeUtf8Bytes: new TextDecoder().decode(new Uint8Array(parts))
decodeUtf8Bytes(byteStr) ==
  LET parts == SplitComma(byteStr)
  IN  TextDecoderDecode([k \in 1..Len(parts) |-> ParseInt10(parts[k]) % 256])

\* \\u[0-9a-fA-F]{4}
unicodePattern ==
  RSeq(<<RLit("\\"), RLit("u"), RRep(RCls(HexDigit), 4, 4)>>)

\* ^(\d+,)*\d+$
numberListPattern ==
  RSeq(<<RStar(RSeq(<<RPlus(RCls(Digit)), RLit(",")>>)), RPlus(RCls(Digit))>>)

\* any code unit but the one given: [^c]
AnyBut(c) ==
  RCls((0..65535) \ {Ord[c]})

\* jsonLikePattern, xmlLikePattern, htmlLikePattern and nonBase64Patterns
LooksStructured(trimmed) ==
  \/ Search(RCls(Chars(<<"{", "}", "[", "]", ":", ",", "\"", "'">>)), trimmed)
  \/ Search(RSeq(<<RLit("<"), RCls(Alpha), RStar(AnyBut(">")), RLit(">")>>), trimmed)
  \/ Search(RSeq(<<RLit("<"), RPlus(AnyBut(">")), RLit(">")>>), trimmed)
  \/ Search(RSeq(<<RLit("{"), RStar(AnyBut("}")), RLit("}")>>), trimmed)
  \/ Search(RSeq(<<RLit("["), RStar(AnyBut("]")), RLit("]")>>), trimmed)
  \/ Search(RSeq(<<RLit("\""), RStar(RCls(0..65535 \ {10, 13, 8232, 8233})), RLit(":")>>), trimmed)
  \/ Search(unicodePattern, trimmed)
  \/ Search(urlEncodedPattern, trimmed)

\* the Base64 rule of detectFormat
detectBase64(trimmed) ==
  IF Test(base64Pattern, trimmed) /\ Len(trimmed) % 4 = 0
  THEN IF LooksStructured(trimmed) THEN "plain"
       ELSE IF atob(trimmed).ok THEN "base64"
       ELSE "plain"
  ELSE "plain"

\* detectFormat
detectFormat(input) ==
  LET trimmed == Trim(input)
      parts == SplitComma(trimmed)
  IN  IF input = <<>> THEN None
      ELSE IF Search(urlEncodedPattern, trimmed) /\ decodeURIComponent(trimmed).ok THEN "url"
      ELSE IF Search(unicodePattern, trimmed) THEN "unicode"
      ELSE IF Test(numberListPattern, trimmed)
      THEN IF \A k \in 1..Len(parts) : ParseInt10(parts[k]) <= 255 THEN "utf8-bytes" ELSE "ascii"
      ELSE IF Test(RPlus(RCls(HexDigit)), trimmed) /\ Len(trimmed) % 2 = 0 THEN "hex"
      ELSE detectBase64(trimmed)

\* the keys of getSupportedFormats, in order
FormatKeys ==
  <<"base64", "hex", "url", "unicode", "ascii", "utf8-bytes", "qrcode">>

\* format.encode; null for the QR code
FormatEncode(key, str) ==
  CASE key = "base64" -> encodeBase64(str)
    [] key = "hex" -> encodeHex(str)
    [] key = "url" -> encodeUrl(str)
    [] key = "unicode" -> encodeUnicode(str)
    [] key = "ascii" -> encodeAscii(str)
    [] key = "utf8-bytes" -> encodeUtf8Bytes(str)

\* format.decode; null for the QR code
FormatDecode(key, str) ==
  CASE key = "base64" -> AsText(decodeBase64(str))
    [] key = "hex" -> decodeHex(str)
    [] key = "url" -> AsText(decodeURIComponent(str))
    [] key = "unicode" -> Ok(Decoded(decodeUnicode(str), FALSE))
    [] key = "ascii" -> Ok(Decoded(decodeAscii(str), FALSE))
    [] key = "utf8-bytes" -> Ok(Decoded(decodeUtf8Bytes(str), FALSE))

\* the entry of newResults for one format: the text shown is result.decoded
\* or result.encoded, by operation
FormatResult(key, detected, trimmedContent) ==
  LET Failed == [operation |-> "", success |-> FALSE, text |-> <<>>, isByteArray |-> FALSE]
      DecodeDone(r) ==
        IF r.ok THEN [operation |-> "decode", success |-> TRUE, text |-> r.v.value,
                      isByteArray |-> r.v.isByteArray]
        ELSE Failed
      EncodeDone(r) ==
        IF r.ok THEN [operation |-> "encode", success |-> TRUE, text |-> r.v,
                      isByteArray |-> FALSE]
        ELSE Failed
  IN  IF key = "qrcode" THEN Failed
      ELSE IF detected = key THEN DecodeDone(FormatDecode(key, trimmedContent))
      ELSE EncodeDone(FormatEncode(key, trimmedContent))

\* the formats processEncoding switches the active tab to
AutoSwitchFormats ==
  {"unicode", "hex", "utf8-bytes", "ascii", "url"}

\* processEncoding(inputContent), with the tab that is active before
processEncoding(inputContent, active) ==
  LET trimmedContent == Trim(inputContent)
      detected == detectFormat(trimmedContent)
  IN  IF trimmedContent = <<>>
      THEN /\ results' = {}
           /\ activeFormat' = active
           /\ UNCHANGED detectedFormat
      ELSE /\ detectedFormat' = detected
           /\ results' = {[k \in {FormatKeys[n] : n \in 1..Len(FormatKeys)} |->
                             FormatResult(k, detected, trimmedContent)]}
           /\ activeFormat' = IF detected \in AutoSwitchFormats THEN detected ELSE active

\* PopUp renders EncodeTool for content c: the state is fresh, the debounce
\* effect sets its timer, the mount effect processes the content
EncodeMount(c) ==
  /\ toolContent = <<>>
  /\ toolContent' = c
  /\ tabClicked' = FALSE
  /\ debounceTimer' = {c}
  /\ processEncoding(c, "base64")
  /\ lastProcessedContent' = c
  /\ UNCHANGED <<popupVars, codecVars, cipherVars, textVars, editorVars, besidesEncode>>

\* PopUp renders another tool: the cleanup clears the timer, the state is gone
EncodeUnmount ==
  /\ toolContent # <<>>
  /\ toolContent' = <<>>
  /\ results' = {}
  /\ detectedFormat' = None
  /\ activeFormat' = "base64"
  /\ lastProcessedContent' = <<>>
  /\ debounceTimer' = {}
  /\ tabClicked' = FALSE
  /\ UNCHANGED <<popupVars, codecVars, cipherVars, textVars, editorVars, besidesEncode>>

\* the prop content changes: the cleanup clears the timer, the effect sets a
\* new one unless the content is the one processed last
EncodeContentChange(c) ==
  /\ toolContent # <<>>
  /\ c # toolContent
  /\ toolContent' = c
  /\ debounceTimer' = IF c = lastProcessedContent THEN {} ELSE {c}
  /\ UNCHANGED <<results, detectedFormat, activeFormat, lastProcessedContent, tabClicked>>
  /\ UNCHANGED <<popupVars, codecVars, cipherVars, textVars, editorVars, besidesEncode>>

\* the debounce timer fires
EncodeTimerFires ==
  /\ debounceTimer # {}
  /\ LET c == CHOOSE x \in debounceTimer : TRUE
     IN  /\ processEncoding(c, activeFormat)
         /\ lastProcessedContent' = c
  /\ debounceTimer' = {}
  /\ UNCHANGED <<toolContent, tabClicked>>
  /\ UNCHANGED <<popupVars, codecVars, cipherVars, textVars, editorVars, besidesEncode>>

\* a format button is clicked
EncodeTabClick(key) ==
  /\ toolContent # <<>>
  /\ key # activeFormat
  /\ activeFormat' = key
  /\ tabClicked' = TRUE
  /\ UNCHANGED <<toolContent, results, detectedFormat, lastProcessedContent, debounceTimer>>
  /\ UNCHANGED <<popupVars, codecVars, cipherVars, textVars, editorVars, besidesEncode>>

(***************************************************************************)
(* Specification of EncodeTool under content changes and tab clicks        *)
(***************************************************************************)
\* contents the classifier tags 'encode' when no profile is stored
RoutedToEncodeTool(c) ==
  /\ Trim(c) # <<>>
  /\ StructuralRules(Trim(c)) = None
  /\ TailRules(Trim(c)) = "encode"

EncodeContents ==
  {c \in { Str(<<"d", "e", "a", "d", "b", "e", "e", "f">>),
           Str(<<"M", "T", "I", "z", "N", "A", "=", "=">>),
           Str(<<"t", "e", "s", "t">>),
           Str(<<"h", "e", "l", "l", "o">>),
           Str(<<"1", ",", "2">>),
           Str(<<"3", "0", "0", ",", "6", "5">>),
           Str(<<"%", "4", "1">>),
           Str(<<"\\", "u", "0", "0", "4", "1">>),
           Str(<<"/", "/", "8", "=">>),
           Str(<<"e", "x", "a", "m", "p", "l", "e", ".", "c", "o", "m">>) } :
     RoutedToEncodeTool(c)}

InitEncode ==
  /\ PopupInit({<<>>})
  /\ CodecIdle
  /\ CipherIdle
  /\ TextIdle
  /\ EditorIdle
  /\ ManagerIdle
  /\ RaceIdle
  /\ OptionsIdle
  /\ PreloadFresh
  /\ LanguageIdle
  /\ EncodeIdle

EncodeMounts ==
  \E c \in EncodeContents : EncodeMount(c)

EncodeContentChanges ==
  \E c \in EncodeContents : EncodeContentChange(c)

EncodeTabClicks ==
  \E n \in 1..Len(FormatKeys) : EncodeTabClick(FormatKeys[n])

NextEncode ==
  \/ EncodeMounts
  \/ EncodeUnmount
  \/ EncodeContentChanges
  \/ EncodeTimerFires
  \/ EncodeTabClicks

SpecEncode ==
  InitEncode /\ [][NextEncode]_vars

(***************************************************************************)
(* The validity checks of CronTool, TimeTool and DnsTool                   *)
(***************************************************************************)
\* String.prototype.split(/\s+/)
RECURSIVE SplitSpaces(_)
SplitSpaces(s) ==
  LET spaces == {i \in 1..Len(s) : s[i] \in JsWhiteSpace}
      first == CHOOSE i \in spaces : \A j \in spaces : i <= j
  IN  IF spaces = {} THEN <<s>>
      ELSE <<SubSeq(s, 1, first - 1)>> \o SplitSpaces(TrimStart(SubSeq(s, first, Len(s))))

\* [\d*,\/\-LW#?]+
CronToolField ==
  RPlus(RCls(Digit \cup Chars(<<"*", ",", "/", "-", "L", "W", "#", "?">>)))

\* isValidCron
isValidCron(str) ==
  LET parts == SplitSpaces(Trim(str))
  IN  /\ Trim(str) # <<>>
      /\ Len(parts) \in {5, 6}
      /\ \A k \in 1..Len(parts) : Test(CronToolField, parts[k])

\* the decimal digits of the number a string of digits converts to:
\* String(+digits)
RECURSIVE NumberDigits(_)
NumberDigits(digits) ==
  IF Len(digits) > 1 /\ digits[1] = Ord["0"] THEN NumberDigits(Tail(digits)) ELSE digits

\* formatTimestamp(ts) for a natural number given by its digits: null unless
\* the number has 10 or 13 digits, otherwise the date of timestampMs
formatTimestamp(ts) ==
  IF Len(ts) = 10 THEN {ts \o Str(<<"0", "0", "0">>)}
  ELSE IF Len(ts) = 13 THEN {ts}
  ELSE {}

\* convertContent for a string: what TimeTool displays.  Strings that are
\* not 10 or 13 digits go to the Date parser
convertContent(str) ==
  IF Test(RPlus(RCls(Digit)), str) /\ Len(str) \in {10, 13}
  THEN IF formatTimestamp(NumberDigits(str)) # {} THEN "formatted" ELSE "invalid_timestamp"
  ELSE "date_parser"

\* isValidDomain
isValidDomain(domain) ==
  Test(domainPattern, Trim(domain))

(***************************************************************************)
(* Specification of the popup's routing: no profile is stored              *)
(***************************************************************************)
RoutingTexts ==
  { Str(<<"0", " ", "0", " ", "*", " ", "*", " ", "*">>),
    Str(<<"0", " ", "0", " ", "0", " ", "*", " ", "*", " ", "*">>),
    Str(<<"0", " ", "0", " ", "0", " ", "*", " ", "*", " ", "?", " ", "2", "0", "2", "4">>),
    Str(<<" ", "*", "/", "5", " ", " ", "*", " ", "*", " ", "*", " ", "*", " ">>),
    Str(<<"1", "7", "0", "0", "0", "0", "0", "0", "0", "0">>),
    Str(<<"1", "7", "0", "0", "0", "0", "0", "0", "0", "0", "0", "0", "0">>),
    Str(<<"0", "0", "0", "0", "0", "0", "0", "0", "0", "1">>),
    Str(<<"2", "0", "2", "4", "-", "0", "1", "-", "0", "1">>),
    ExampleCom,
    Str(<<" ", "a", ".", "i", "o", " ">>),
    Str(<<"a", "-", ".", "i", "o">>),
    Quad,
    helloWorld }

InitRouting ==
  /\ PopupInit({<<>>})
  /\ CodecIdle
  /\ CipherIdle
  /\ TextIdle
  /\ EditorIdle
  /\ PageIdle

RoutingContentChange ==
  \E c \in RoutingTexts : ContentChange(c)

NextRouting ==
  \/ RoutingContentChange
  \/ Begin
  \/ PopupRsaCheck
  \/ PopupSweepRead
  \/ FallThrough

SpecRouting ==
  InitRouting /\ [][NextRouting]_vars

(***************************************************************************)
(* Properties                                                              *)
(***************************************************************************)
\* the full test ran to the comparison or failed on the way
Tested ==
  toast \in {"full_test_pass", "full_test_mismatch", "test_failed"}

\* C1 (cipher round trip): for every profile the editor can produce and every
\* text, the full test's decrypt(encrypt(T, C), C) equals T after
\* normalizeString
C1_CipherRoundTrip ==
  Tested => /\ toast = "full_test_pass"
            /\ normalizeString(decryptResult) = normalizeString(testText)

\* the result has been computed
Computed(result) ==
  result.ok \/ result.v # "pending"

\* C2 (codec round trip): for every chain over UTF8, HEX, BASE64,
\* BASE64_URLSAFE and every payload, decode(encode(P, E), E) returns exactly P
C2_CodecRoundTrip ==
  Computed(decoded) => decoded.ok /\ decoded.v = payload.v

\* the closed set of tags
ClosedTags ==
  {"ip", "ipv6", "cidr", "ipv6cidr", "cron", "timestamp", "datetime", "url", "domain",
   "encode", "encrypted"}

\* the text is empty or holds white space only
Blank(c) ==
  \A i \in 1..Len(c) : c[i] \in JsWhiteSpace

\* C3 (classification never raises): whatever the text and the stored list,
\* malformed profiles and failing storage reads included, no error leaves
\* detectContentType and a finished call has returned one tag of the closed set
C3_NeverRaises ==
  /\ ~raised
  /\ pc = "done" /\ ~Blank(content) => tag \in ClosedTags /\ contentType = tag

\* a call that met a rejected storage read and a null profile whose trial
\* decryption threw, and still returned a tag
C3_Witness ==
  /\ pc = "done" /\ readFailed /\ tag = "encode"
  /\ \E i \in thrown : i <= Len(store) /\ store[i] = cfgNull

\* the profile's mode needs no padding
StreamLike(config) ==
  config.mode # Undefined /\ ToUpperCase(config.mode) \in MODES \ NEED_PADDING_MODES

\* C5 (stream-like modes need a readable result): the sweep returns
\* 'encrypted' from a profile of a mode outside NEED_PADDING_MODES only if
\* analyzePrintableCharacters reports isReadable on the decrypted text
C5_StreamLikeNeedsReadable ==
  \A config \in accepted :
    StreamLike(config) =>
      LET decrypted == TrialDecrypt(Trim(evalText), config)
      IN  decrypted.ok /\ analyzePrintableCharacters(decrypted.v).isReadable

\* C6 (empty profile list): a call whose storage reads found no profile made
\* no trial decryption and did not return 'encrypted'
C6_EmptyListNoTrial ==
  ~sawProfiles => trials = <<>> /\ tag # "encrypted"

\* a long base64 text classified with nothing stored
C6_Witness ==
  /\ pc = "done" /\ store = <<>> /\ ~sawProfiles /\ ~readFailed
  /\ Len(Trim(content)) > 100 /\ RSAShapeOk(content) /\ tag = "encode"

\* C7 (blank content): for empty or all-whitespace content no trial
\* decryption is attempted and the tag shown is 'encode', whatever is stored
C7_BlankIsEncode ==
  Blank(content) => trials = <<>> /\ pc \in {"idle", "done"} /\ contentType = "encode"

\* whitespace longer than the sweep's length guard, with profiles stored
C7_Witness ==
  /\ pc = "done" /\ Len(content) > 10 /\ Blank(content) /\ Len(store) = MaxProfiles
  /\ contentType = "encode"

\* the text is made of decimal digits
IsDigits(s) ==
  \A i \in 1..Len(s) : s[i] \in 48..57

\* C8 (timestamps): a trimmed input of exactly 10 or exactly 13 decimal
\* digits is tagged 'timestamp' without any trial decryption, whatever is
\* stored
C8_Timestamp ==
  IsDigits(Trim(content)) /\ Len(Trim(content)) \in {10, 13} =>
    /\ trials = <<>>
    /\ pc = "done" => tag = "timestamp" /\ contentType = "timestamp"

\* thirteen digits between white space, classified with profiles stored
C8_Witness ==
  /\ pc = "done" /\ IsDigits(Trim(content)) /\ Len(Trim(content)) = 13 /\ content # Trim(content)
  /\ store # <<>> /\ tag = "timestamp"

\* the decimal digits of n
RECURSIVE Dec(_)
Dec(n) ==
  IF n < 10 THEN <<48 + n>> ELSE Dec(n \div 10) \o <<48 + (n % 10)>>

\* c is an address the classifier tags kind, a slash and a prefix length of
\* 0..maxPrefix
HasCidrSuffix(c, kind, maxPrefix) ==
  \E i \in 1..Len(c) :
    /\ c[i] = Ord["/"]
    /\ StructuralRules(SubSeq(c, 1, i - 1)) = kind
    /\ \E p \in 0..maxPrefix : SubSeq(c, i + 1, Len(c)) = Dec(p)

\* C9 (CIDR suffix): "A/p" with A a dotted quad and p in 0..32 is tagged
\* 'cidr'; "B/p" with B tagged 'ipv6' and p in 0..128 is tagged 'ipv6cidr'
C9_CidrSuffix ==
  pc = "done" =>
    /\ HasCidrSuffix(Trim(content), "ip", 32) => tag = "cidr"
    /\ HasCidrSuffix(Trim(content), "ipv6", 128) => tag = "ipv6cidr"

\* C10 as stated (sweep after every cheap rule, URL and domain included): for
\* an input that matches the URL rule or the domain rule no trial decryption
\* is attempted and the tag is 'url' or 'domain'
C10_SweepAfterUrlAndDomain ==
  StructuralRules(Trim(content)) = None /\ TailRules(Trim(content)) \in {"url", "domain"} =>
    /\ trials = <<>>
    /\ pc = "done" => tag = TailRules(Trim(content))

\* C10 amended (sweep after the IP/CIDR, cron, timestamp and date-time rules
\* and the RSA heuristic, before the URL, domain and base64 rules): an input
\* matching one of the former meets no storage read and no trial decryption
\* and gets that rule's tag; a call that made trial decryptions and did not
\* return 'encrypted' returns what the URL, domain and base64 rules give
C10_SweepOrder ==
  /\ StructuralRules(Trim(content)) # None =>
       /\ trials = <<>> /\ ~sawProfiles /\ ~readFailed
       /\ pc = "done" => tag = StructuralRules(Trim(content))
  /\ pc = "done" /\ trials # <<>> /\ tag # "encrypted" => tag = TailRules(Trim(content))

\* a domain name that went through trial decryptions before it was tagged
C10_Witness ==
  pc = "done" /\ trials # <<>> /\ tag = "domain"

\* C11 (order of the sweep): trial decryptions go through the list read by
\* the sweep in order, each profile once; while no profile has succeeded the
\* loop stands at the profile after the last one tried, a call that leaves the
\* loop without a success has tried every profile of the list, thrown trials
\* included, and a success is the last trial of the call, which has returned
\* 'encrypted'
C11_SweepInOrder ==
  /\ trials = [i \in 1..Len(trials) |-> i]
  /\ thrown \subseteq 1..Len(trials)
  /\ pc = "sweepLoop" => cfgIdx = Len(trials) + 1 /\ cfgIdx <= Len(configs) /\ accepted = {}
  /\ pc = "tail" => Len(trials) = Len(configs) /\ accepted = {}
  /\ accepted # {} => /\ pc = "done"
                      /\ tag = "encrypted"
                      /\ trials # <<>>
                      /\ Len(trials) \notin thrown

\* the first profile's trial threw, the second succeeded and ended the call
C11_Witness ==
  /\ pc = "done" /\ trials = <<1, 2>> /\ 1 \in thrown /\ accepted # {} /\ tag = "encrypted"

\* the text is not the hexadecimal text of whole bytes
MalformedHex(s) ==
  Len(s) % 2 # 0 \/ \E i \in 1..Len(s) : HexVal(s[i]) < 0

\* the text is not padded base64: a character outside the alphabet, a length
\* that is no multiple of four, or padding elsewhere than in the last two places
MalformedBase64(s) ==
  \/ Len(s) % 4 # 0
  \/ \E i \in 1..Len(s) : s[i] # Ord["="] /\ ~(\E k \in 1..64 : Base64Map[k] = s[i])
  \/ \E i \in 1..Len(s) : s[i] = Ord["="] /\ (i < Len(s) - 1 \/ (i < Len(s) /\ s[Len(s)] # Ord["="]))

\* C12 (decode rejects malformed input): when the text given to the first step
\* of the chain violates that step's alphabet or length constraints (HEX,
\* BASE64), EncodingUtils.decode throws and returns no value
C12_DecodeRejectsMalformed ==
  Computed(decoded) /\ encoded.ok =>
    /\ ToUpperCase(chain[1]) = "HEX" /\ MalformedHex(encoded.v) => ~decoded.ok
    /\ ToUpperCase(chain[1]) = "BASE64" /\ MalformedBase64(encoded.v) => ~decoded.ok

\* the key material encryption needs is absent: the key of an AES or SM4
\* profile, the public key of an RSA profile, is missing or empty
KeyAbsent(config) ==
  IF config.algorithmType = "RSA"
  THEN ~config.publicKey.present \/ config.publicKey.value = <<>>
  ELSE ~config.key.present \/ config.key.value = <<>>

\* C13 (encrypt needs key material): CipherUtils.encrypt, as the encryption
\* test calls it, raises an error and produces no ciphertext when the
\* profile's key (AES, SM4) or public key (RSA) is missing or empty
C13_EncryptNeedsKey ==
  \A config \in testConfig :
    toast \in {"encrypt_success", "encrypt_failed"} /\ KeyAbsent(config) =>
      toast = "encrypt_failed" /\ encryptResult = <<>>

\* C14 (stream-like AES modes use no padding): after a full test under an AES
\* profile whose mode is CFB, OFB or CTR, the padding AESCipher.encrypt handed
\* to CryptoJS.AES.encrypt and the padding AESCipher.decrypt handed to
\* CryptoJS.AES.decrypt are both NoPadding
C14_StreamModesNoPadding ==
  \A config \in testConfig :
    /\ toast \in {"full_test_pass", "full_test_mismatch"}
    /\ config.algorithmType = "AES"
    /\ StreamLike(config)
    => /\ AesEncryptOptions(AlgorithmConfig(adaptConfigForCipher(config))).padding = "NoPadding"
       /\ AesDecryptOptions(adaptConfigForCipher(config)).padding = "NoPadding"

\* C15 (JSON content): when the trimmed content starts with '{' or '[', the
\* detected content type is 'json' and renderToolComponent renders JsonTool
C15_JsonActivatesJsonTool ==
  pc = "done" /\ Trim(content) # <<>> /\ Trim(content)[1] \in Chars(<<"{", "[">>) =>
    /\ contentType = "json"
    /\ renderToolComponent(content, contentType) = "JsonTool"

\* C16 (printable analysis): 0 <= printableChars <= totalChars = text.length;
\* for a non-empty string isReadable is true iff printableChars/totalChars >=
\* 0.5; for an empty string or a value that is no string isReadable is false
\* and nothing is counted; isTextReadable with the default threshold gives
\* the verdict isReadable
C16_PrintableAnalysis ==
  \A a \in analysis :
    /\ 0 <= a.printableChars /\ a.printableChars <= a.totalChars
    /\ a.totalChars = (IF text.t = "str" THEN Len(text.v) ELSE 0)
    /\ text.t = "str" =>
         a.printableChars = Cardinality({i \in 1..Len(text.v) : IsPrintable(text.v[i])})
    /\ a.totalChars > 0 => (a.isReadable <=> 2 * a.printableChars >= a.totalChars)
    /\ a.totalChars = 0 => ~a.isReadable /\ a.printableChars = 0
    /\ readable = {a.isReadable}

\* a text of which exactly half is printable, found readable by both
C16_Witness ==
  /\ text.t = "str" /\ Len(text.v) = 2
  /\ \E a \in analysis : a.printableChars = 1 /\ a.isReadable
  /\ readable = {TRUE}

\* the step of the call from the RSA heuristic on: the heuristic has answered
RsaRuleAnswered ==
  pc = "rsa" /\ pc' # "rsa"

\* the RSA heuristic returned 'encrypted'
RsaRuleFired ==
  RsaRuleAnswered /\ tag' = "encrypted"

\* the stored list holds an RSA profile and no null entry before it
RsaProfileStored ==
  \E i \in 1..Len(store) :
    /\ \A j \in 1..i : ~store[j].isNull
    /\ store[i].algorithmType = "RSA"

\* C17 as stated: the RSA heuristic tags the input 'encrypted' whenever the
\* trimmed input matches the base64 pattern, has length >= 50 and an RSA
\* profile is stored (here: read successfully, no null entry in the list)
C17_RsaRuleFrom50 ==
  [][/\ RsaRuleAnswered
     /\ Test(base64Pattern, Trim(evalText)) /\ Len(Trim(evalText)) >= 50
     /\ ~readFailed' /\ RsaProfileStored /\ \A j \in 1..Len(store) : ~store[j].isNull
     => RsaRuleFired]_vars

\* C17 amended: the RSA heuristic tags the input 'encrypted' exactly when the
\* trimmed input matches the base64 pattern, has length > 100, the storage
\* read succeeds and the stored list holds an RSA profile with no null entry
\* before it
C17_RsaRule ==
  [][RsaRuleAnswered =>
       (RsaRuleFired <=> /\ Test(base64Pattern, Trim(evalText))
                         /\ Len(Trim(evalText)) > 100
                         /\ ~readFailed'
                         /\ RsaProfileStored)]_vars

\* a base64 text longer than 100 tagged by the RSA heuristic: no trial
\* decryption was made
C17_Witness ==
  /\ pc = "done" /\ tag = "encrypted" /\ trials = <<>> /\ accepted = {}
  /\ Test(base64Pattern, Trim(content)) /\ Len(Trim(content)) > 100

\* the profile's mode fails hard on a wrong key: CBC, ECB, and RSA profiles
HardFailing(config) ==
  /\ ~config.isNull
  /\ \/ config.algorithmType = "RSA"
     \/ (config.mode # Undefined /\ ToUpperCase(config.mode) \in NEED_PADDING_MODES)

RECURSIVE WithoutTrailingNul(_)
WithoutTrailingNul(s) ==
  IF s # <<>> /\ s[Len(s)] = 0 THEN WithoutTrailingNul(SubSeq(s, 1, Len(s) - 1)) ELSE s

\* C19 (zero bytes are trimmed for CTR only): decrypting the ciphertext of a
\* message under an AES profile returns the message without its trailing
\* zero bytes when the mode is CTR, and the whole message, trailing zero
\* bytes included, when the mode is CBC, ECB, CFB or OFB
C19_TrimOnlyForCTR ==
  \A config \in testConfig :
    toast \in {"decrypt_success_match", "decrypt_success_mismatch", "decrypt_failed"} =>
      /\ toast # "decrypt_failed"
      /\ decryptResult = IF config.mode = "CTR" THEN WithoutTrailingNul(testText) ELSE testText

\* a message ending in a zero byte, decrypted under CTR and trimmed
C19_Witness ==
  /\ toast = "decrypt_success_mismatch"
  /\ \E config \in testConfig : config.mode = "CTR"
  /\ Len(testText) = MaxMessageLen /\ testText[Len(testText)] = 0 /\ testText[1] # 0
  /\ decryptResult = WithoutTrailingNul(testText)

\* C20 (padding only for CBC and ECB): once the effects have settled, padding
\* is non-empty iff the mode is CBC or ECB, in CipherTool's state and in the
\* profile written back through onChange; for RSA mode and padding are empty
C20_PaddingIffBlockMode ==
  Settled =>
    /\ tool.padding # "" <=> tool.model \in NEED_PADDING_MODES
    /\ editedConfig.padding # "" <=> editedConfig.mode \in NEED_PADDING_MODES
    /\ tool.algorithm = "RSA" => tool.model = "" /\ tool.padding = ""
    /\ editedConfig.algorithmType = "RSA" => editedConfig.mode = "" /\ editedConfig.padding = ""

\* the names of a list are pairwise distinct
DistinctNames(list) ==
  \A i, j \in 1..Len(list) : i # j => list[i].name # list[j].name

\* the list holds a profile equal to config
Holds(list, config) ==
  \E i \in 1..Len(list) : list[i] = config

\* C21 (required keys persisted): every profile of the stored list passes
\* validateRequiredFields: a symmetric profile has a key, an RSA profile its
\* key pair
C21_StoredProfilesHaveKeys ==
  \A i \in 1..Len(keyConfigs) : validateRequiredFields(keyConfigs[i]).isValid

\* C24 (names stay distinct, list never empty): after any interleaving of
\* addConfig, saveConfig and deleteConfig the names of the list in memory and
\* of the stored list are pairwise distinct and neither list is empty; the
\* same holds for every list a waiting handler is about to write
C24_DistinctNamesNeverEmpty ==
  /\ managerConfigs # <<>> /\ DistinctNames(managerConfigs)
  /\ keyConfigs # <<>> /\ DistinctNames(keyConfigs)
  /\ \A i \in 1..Len(saves) : saves[i].updatedConfigs # <<>> /\ DistinctNames(saves[i].updatedConfigs)

\* a profile was created and the only profile of before deleted
C24_Witness ==
  /\ calls >= 2
  /\ saves = <<>>
  /\ Len(managerConfigs) = 1
  /\ managerConfigs[1].name = Str(<<"c">>)
  /\ keyConfigs = managerConfigs

\* C25 (a saved profile is in the list): when saveConfig has reported
\* success for a profile, the list in memory and the stored list hold a profile
\* equal to it
C25_SavedProfileIsListed ==
  notice.message = "saved" =>
    \A updatedConfig \in notice.config :
      Holds(managerConfigs, updatedConfig) /\ Holds(keyConfigs, updatedConfig)

\* C26 (the page stays in range): currentPage is within 1..max(1, totalPages)
\* and a non-empty list shows at least one profile on the current page
C26_PageInRange ==
  /\ currentPage >= 1
  /\ currentPage <= (IF totalPages(managerConfigs) > 1 THEN totalPages(managerConfigs) ELSE 1)
  /\ managerConfigs # <<>> => currentConfigs(managerConfigs, currentPage) # <<>>

\* C22 (no stale classification): once no call is waiting, the type shown is
\* the type the call for the current content returned
C22_NoStaleClassification ==
  inflight = <<>> /\ tag # None => contentType = tag


\* the profile the options page builds for the selected algorithm
OptionsProfile ==
  OptionsSymmetric(algorithmSelect, getAESKeys(encryptionKeys).v)

\* decryptTest has run the AES primitive on a ciphertext of encryptTest
AesTestsRan ==
  /\ algorithmSelect \in OptionsAlgorithms
  /\ algorithmSelect[1] = "AES"
  /\ getAESKeys(encryptionKeys).ok
  /\ encryptedText # <<>>
  /\ testResult \in {"decrypt_success", "decrypt_failed"}

\* C23 (one mode, one padding): for the AES profile the options page builds
\* from the algorithm string alone, CipherUtils.encrypt and CipherUtils.decrypt
\* hand the same mode and the same padding to the primitive
C23_SameModeAndPadding ==
  AesTestsRan =>
    /\ AesEncryptOptions(AlgorithmConfig(OptionsProfile)).mode = AesDecryptOptions(OptionsProfile).mode
    /\ AesEncryptOptions(AlgorithmConfig(OptionsProfile)).padding = AesDecryptOptions(OptionsProfile).padding


\* the calls whose load pass is in progress
Loading ==
  {i \in Callers : callers[i].pc = "loading"}

\* one pass at a time and one in total, waiting while it runs, and the
\* flags as promised once a call has returned
PreloadSafe ==
  /\ Cardinality(Loading) <= 1
  /\ isPreloading <=> Loading # {}
  /\ passes <= 1
  /\ \A l \in {"zh", "en"} : loads[l] <= 1
  /\ \A i \in Callers :
       /\ callers[i].pc = "waiting" /\ isPreloading => Loading # {} /\ i \notin Loading
       /\ callers[i].pc = "returned" => preloadCompleted /\ ~isPreloading

\* C27 (preload under concurrent callers): at most one load pass runs at a
\* time and one in total, each file is imported at most once, callers
\* arriving during the pass wait, and every call returns with
\* preloadCompleted true and isPreloading false, also when an import fails
C27_PreloadOnceAndReturns ==
  /\ []PreloadSafe
  /\ \A i \in Callers : (callers[i].pc # "idle") ~> (callers[i].pc = "returned")

\* every call has returned, one of them after waiting for the pass of
\* another, and the import of a language failed
C27_Witness ==
  /\ \A i \in Callers : callers[i].pc = "returned"
  /\ \E i \in Callers : callers[i].waited
  /\ preloadedTranslations["zh"] = "empty"
  /\ passes = 1


\* C28 (the selected language stays): once switchLanguage has been called
\* with a supported language, currentLanguage is the language of the last
\* such call, whenever the initial detection completes
C28_SelectedLanguageStays ==
  userLanguage # {} => currentLanguage \in userLanguage


\* what the result panel of EncodeTool shows: the entry of the active tab, if
\* the tab has one that succeeded
Displayed ==
  {r \in {res[activeFormat] : res \in results} : r.success}

\* C29 (base64 is shown decoded): without a manual tab click, whenever the
\* content processed last is detected as base64, the active tab is base64
\* and the panel shows the Base64 decoding of that content
C29_Base64ShownDecoded ==
  (toolContent # <<>> /\ ~tabClicked /\ detectedFormat = "base64") =>
    /\ activeFormat = "base64"
    /\ \A r \in Displayed :
         /\ r.operation = "decode"
         /\ r.text = decodeBase64(Trim(lastProcessedContent)).v


\* the call of detectContentType for the content shown has returned the type
Classified(type) ==
  pc = "done" /\ ~raised /\ tag = type /\ contentType = type

\* C30 (classifier and tools agree): a content tagged cron passes
\* isValidCron, a content tagged timestamp gets a formatted date from
\* TimeTool, a content tagged domain passes isValidDomain
C30_ClassifierAndToolsAgree ==
  /\ Classified("cron") => isValidCron(content)
  /\ Classified("timestamp") => convertContent(content) = "formatted"
  /\ Classified("domain") => isValidDomain(content)

====
